---- MODULE Spec2Model ----
(***************************************************************************)
(* A model of the bloat analysis engine of `substance`: the binary symbol  *)
(* extractor, the dependency symbol index, the unit attribution resolver,  *)
(* the LLVM IR instantiation analyzer and analyze_binary.                  *)
(*                                                                         *)
(* Strings are sequences of one-character strings, so that the string      *)
(* operations of the code (contains, split, starts_with, truncate) are     *)
(* computed as the code computes them.                                     *)
(***************************************************************************)
EXTENDS Integers, Sequences, FiniteSets, TLC

VARIABLES
    \* binary symbol extractor (object.rs / lib.rs collect_self_data)
    parsed,          \* what the format parser makes of the mapped file
    d,               \* what collect_self_data returns
    \* unit attribution resolver (crate_name.rs)
    context,         \* BuildContext: std_crates, dep_crates, deps_symbols
    sym,             \* SymbolName: complete, trimmed, kind, crate_name
    std_handling,    \* StdHandling: "Split" or "Merged"
    impl_ret,        \* what from_sym_impl / parse_sym returned
    ret,             \* what from_sym returned
    \* dependency symbol index (collect_deps_symbols)
    libs,            \* the (unit name, archive path) pairs passed in
    map,             \* what collect_deps_symbols returns
    \* per-text IR analyzer (llvm_ir.rs analyze_llvm_ir_data)
    ir,              \* the IR text, a sequence of lines
    instantiations,  \* what analyze_llvm_ir_data returns
    \* directory-level IR analyzer (llvm_ir.rs analyze_llvm_ir_from_target_dir)
    ll_files,        \* the paths find_llvm_ir_files returned
    results,         \* one slot per path, filled as the worker tasks finish
    functions,       \* what analyze_llvm_ir_from_target_dir returns
    \* analyze_binary (lib.rs)
    config,          \* AnalysisConfig of the last call
    target_dir,      \* the build directory tree of the last call
    result,          \* per analyze_llvm_ir setting, what analyze_binary returned
    \* comparison engine (lib.rs AnalysisComparison::compare)
    before,          \* the snapshot passed as before
    after,           \* the snapshot passed as after
    comparison,      \* what compare returns
    \* SymbolChange / CrateChange (lib.rs percent_change, absolute_change)
    change,          \* the change the methods are called on
    deltas,          \* what percent_change and absolute_change return
    \* report comparison (reporting.rs ComparisonData::from_reports)
    baseline,        \* the baseline report
    current,         \* the current report
    comparison_data, \* what from_reports returns
    \* debug-database fallback (object.rs collect_pdb_data)
    pdb,             \* the procedures and public symbols of the database
    pdb_symbols,     \* the symbols collect_pdb_data makes of them
    \* IR-function unit heuristic (crate_name.rs extract_crate_from_function)
    llvm_function,   \* the function name passed in
    heuristic_crate, \* what extract_crate_from_function returns
    \* hash removal (types.rs strip_hash, llvm_ir.rs has_hash and truncate)
    demangled_symbol, \* the name the hash is removed from
    without_hash,    \* what strip_hash and the IR analyzer make of it
    \* a second call of the resolver with the arguments of the first
    ret_again,       \* what from_sym returned the second time
    \* AnalysisResult::top_symbols (analysis_ext.rs)
    top_listing,     \* n and what top_symbols(n) returns
    \* AnalysisComparison::total_size_change (analysis_ext.rs)
    size_change_total \* what total_size_change returns

vars == <<parsed, d, context, sym, std_handling, impl_ret, ret, libs, map,
          ir, instantiations, ll_files, results, functions,
          config, target_dir, result, before, after, comparison,
          change, deltas, baseline, current, comparison_data,
          pdb, pdb_symbols, llvm_function, heuristic_crate,
          demangled_symbol, without_hash, ret_again, top_listing,
          size_change_total>>

extractVars  == <<parsed, d>>
resolverVars == <<context, sym, std_handling, impl_ret, ret>>
indexVars    == <<libs, map>>
irVars       == <<ir, instantiations>>
irDirVars    == <<ll_files, results, functions>>
analyzeVars  == <<config, target_dir, result>>
compareVars  == <<before, after, comparison>>
changeVars   == <<change, deltas>>
reportVars   == <<baseline, current, comparison_data>>
pdbVars      == <<pdb, pdb_symbols>>
heuristicVars == <<llvm_function, heuristic_crate>>
reportingVars == <<compareVars, changeVars, reportVars>>
hashVars     == <<demangled_symbol, without_hash>>
derivedVars  == <<ret_again, top_listing, size_change_total>>

\* What the components of the first part leave alone together.
firstVars ==
    <<extractVars, resolverVars, indexVars, irVars, irDirVars, analyzeVars>>

\* What a call of one component leaves alone.
exceptExtract  == <<resolverVars, indexVars, irVars, irDirVars, analyzeVars,
                   reportingVars, pdbVars, heuristicVars,
      hashVars, derivedVars>>
exceptResolver == <<extractVars, indexVars, irVars, irDirVars, analyzeVars,
                   reportingVars, pdbVars, heuristicVars,
      hashVars, derivedVars>>
exceptIndex    == <<extractVars, resolverVars, irVars, irDirVars, analyzeVars,
                   reportingVars, pdbVars, heuristicVars,
      hashVars, derivedVars>>
exceptIr       == <<extractVars, resolverVars, indexVars, irDirVars, analyzeVars,
                   reportingVars, pdbVars, heuristicVars,
      hashVars, derivedVars>>
exceptIrDir    == <<extractVars, resolverVars, indexVars, irVars, analyzeVars,
                   reportingVars, pdbVars, heuristicVars,
      hashVars, derivedVars>>

\* The value of a variable no call has written yet.
NotCalled == [status |-> "NotCalled"]

----------------------------------------------------------------------------
(* String operations of the Rust standard library, on character sequences. *)

starts_with(s, p) == Len(p) <= Len(s) /\ SubSeq(s, 1, Len(p)) = p

\* str::find: the index of the first occurrence of pat at or after i, 0 if none.
RECURSIVE find_from(_, _, _)
find_from(s, pat, i) ==
    IF i + Len(pat) - 1 > Len(s) THEN 0
    ELSE IF SubSeq(s, i, i + Len(pat) - 1) = pat THEN i
    ELSE find_from(s, pat, i + 1)

find(s, pat) == find_from(s, pat, 1)

contains(s, pat) == find(s, pat) # 0

\* str::split(pat).collect(): the pieces between non-overlapping occurrences.
RECURSIVE split(_, _)
split(s, pat) ==
    LET i == find(s, pat)
    IN  IF i = 0 THEN <<s>>
        ELSE <<SubSeq(s, 1, i - 1)>> \o split(SubSeq(s, i + Len(pat), Len(s)), pat)

\* String::remove(0) while the string starts with ch.
RECURSIVE strip_leading(_, _)
strip_leading(s, ch) ==
    IF Len(s) > 0 /\ s[1] = ch THEN strip_leading(Tail(s), ch) ELSE s

\* str::split_whitespace().collect(): the maximal runs of non-blank characters.
split_whitespace(s) == SelectSeq(split(s, <<" ">>), LAMBDA w : w # <<>>)

\* Vec::contains
vec_contains(v, x) == \E i \in 1..Len(v) : v[i] = x

\* The sum of the values of a function with a finite domain.
RECURSIVE SumFn(_)
SumFn(f) ==
    IF DOMAIN f = {} THEN 0
    ELSE LET x == CHOOSE x \in DOMAIN f : TRUE
         IN  f[x] + SumFn([y \in DOMAIN f \ {x} |-> f[y]])

----------------------------------------------------------------------------
(* Unit attribution resolver: crate_name.rs                                *)

UNKNOWN == <<"[", "U", "n", "k", "n", "o", "w", "n", "]">>
STD == <<"s", "t", "d">>
PathSep == <<":", ":">>
AsSep == <<" ", "a", "s", " ">>

\* A call that unwinds instead of returning.
Panicked == [status |-> "Panicked", name |-> <<>>, exact |-> FALSE]
Returned(name, is_exact) == [status |-> "Returned", name |-> name, exact |-> is_exact]

\* Option::unwrap of split_whitespace().last() panics on None.
parse_crate_from_sym(s) ==
    IF ~contains(s, PathSep) THEN Returned(<<>>, TRUE)
    ELSE LET crate_name == split(s, PathSep)[1]
         IN  IF starts_with(crate_name, <<"<">>)
             THEN LET stripped == strip_leading(strip_leading(crate_name, "<"), "&")
                      words == split_whitespace(stripped)
                  IN  IF words = <<>> THEN Panicked
                      ELSE Returned(words[Len(words)], TRUE)
             ELSE Returned(crate_name, TRUE)

\* parse_sym without the lookup of the symbol in deps_symbols.
parse_sym_no_lookup(ctx, s) ==
    IF contains(s, AsSep)
    THEN LET parts == split(s, AsSep)
             r1 == parse_crate_from_sym(parts[1])
             r2 == parse_crate_from_sym(parts[2])
         IN  IF r1.status = "Panicked" \/ r2.status = "Panicked" THEN Panicked
             ELSE IF r1.name = <<>> THEN Returned(r2.name, TRUE)
             ELSE IF r1.name = r2.name THEN Returned(r1.name, TRUE)
             ELSE Returned(r1.name, FALSE)
    ELSE parse_crate_from_sym(s)

parse_sym(ctx, s) ==
    IF contains(s, AsSep)
    THEN LET parts == split(s, AsSep)
             r1 == parse_crate_from_sym(parts[1])
             r2 == parse_crate_from_sym(parts[2])
             crate_name1 == r1.name
             crate_name2 == r2.name
         IN  IF r1.status = "Panicked" \/ r2.status = "Panicked" THEN Panicked
             ELSE IF crate_name1 = <<>> THEN Returned(crate_name2, TRUE)
             ELSE IF crate_name1 = crate_name2 THEN Returned(crate_name1, TRUE)
             ELSE IF s \in DOMAIN ctx.deps_symbols
                  THEN LET names == ctx.deps_symbols[s]
                       IN  IF vec_contains(names, crate_name1)
                           THEN Returned(crate_name1, TRUE)
                           ELSE IF vec_contains(names, crate_name2)
                           THEN Returned(crate_name2, TRUE)
                           ELSE Returned(crate_name1, FALSE)
                  ELSE Returned(crate_name1, FALSE)
    ELSE parse_crate_from_sym(s)

parse_sym_v0(ctx, s) ==
    LET r == parse_crate_from_sym(s)
    IN  IF r.status = "Panicked" THEN Panicked
        ELSE IF r.name \in ctx.std_crates \/ r.name \in ctx.dep_crates
        THEN Returned(r.name, FALSE)
        ELSE Returned(UNKNOWN, TRUE)

\* from_sym_impl answering with the last unit recorded under the key.
from_sym_impl_last_unit(ctx, s) ==
    IF s.complete \in DOMAIN ctx.deps_symbols
    THEN LET names == ctx.deps_symbols[s.complete]
         IN  Returned(names[Len(names)], TRUE)
    ELSE Returned(UNKNOWN, TRUE)

\* from_sym_impl without the lookup of the complete name in deps_symbols.
from_sym_impl_no_lookup(ctx, s) ==
    CASE s.kind = "Legacy" -> parse_sym(ctx, s.complete)
      [] s.kind = "V0" ->
           IF s.crate_name.some THEN Returned(s.crate_name.value, TRUE)
           ELSE parse_sym_v0(ctx, s.trimmed)
      [] s.kind = "Unknown" -> Returned(UNKNOWN, TRUE)

from_sym_impl(ctx, s) ==
    IF s.complete \in DOMAIN ctx.deps_symbols
    THEN Returned(ctx.deps_symbols[s.complete][1], TRUE)
    ELSE CASE s.kind = "Legacy" -> parse_sym(ctx, s.complete)
           [] s.kind = "V0" ->
                IF s.crate_name.some THEN Returned(s.crate_name.value, TRUE)
                ELSE parse_sym_v0(ctx, s.trimmed)
           [] s.kind = "Unknown" -> Returned(UNKNOWN, TRUE)

\* from_sym folding every unit into std in merged mode.
from_sym_merge_all(ctx, handling, s) ==
    LET r == from_sym_impl(ctx, s)
    IN  IF r.status = "Panicked" THEN Panicked
        ELSE IF handling = "Merged" THEN Returned(STD, r.exact)
        ELSE r

from_sym(ctx, handling, s) ==
    LET r == from_sym_impl(ctx, s)
    IN  IF r.status = "Panicked" THEN Panicked
        ELSE IF handling = "Merged" /\ r.name \in ctx.std_crates
        THEN Returned(STD, r.exact)
        ELSE r

----------------------------------------------------------------------------
(* Inputs of the resolver.                                                 *)

MaxTokens == 3
MaxUnits == 2

UnitA == <<"a">>
UnitB == <<"b">>
UnitC == <<"c">>
Euclid == <<"e", "u", "c", "l", "i", "d">>
Resvg == <<"r", "e", "s", "v", "g">>

\* <euclid::rect::TypedRect<f64> as resvg::geom::RectExt>::x
EuclidSym ==
    <<"<", "e", "u", "c", "l", "i", "d", ":", ":", "r", "e", "c", "t", ":", ":",
      "T", "y", "p", "e", "d", "R", "e", "c", "t", "<", "f", "6", "4", ">",
      " ", "a", "s", " ", "r", "e", "s", "v", "g", ":", ":", "g", "e", "o", "m",
      ":", ":", "R", "e", "c", "t", "E", "x", "t", ">", ":", ":", "x">>

\* The pieces symbol names are put together from.
Tokens == {<<"<">>, <<"&">>, PathSep, AsSep, <<" ">>, UnitA}

RECURSIVE TokenStrings(_)
TokenStrings(n) ==
    IF n = 0 THEN {<<>>}
    ELSE LET prev == TokenStrings(n - 1)
         IN  prev \cup {s \o t : s \in prev, t \in Tokens}

\* `<X as Y>::f` trait-implementation names: <T, <a::T, <b::T, <&a::T, <::T
\* before the ` as `, and a::U>::f, b::U>::f, c::U>::f, U>::f after it.
TraitImplSyms ==
    {x \o AsSep \o y :
        x \in {<<"<", "T">>, <<"<", "a", ":", ":", "T">>, <<"<", "b", ":", ":", "T">>,
               <<"<", "&", "a", ":", ":", "T">>, <<"<", ":", ":", "T">>},
        y \in {<<"a", ":", ":", "U", ">", ":", ":", "f">>,
               <<"b", ":", ":", "U", ">", ":", ":", "f">>,
               <<"c", ":", ":", "U", ">", ":", ":", "f">>,
               <<"U", ">", ":", ":", "f">>}}
    \cup {EuclidSym}

Completes == TokenStrings(MaxTokens) \cup TraitImplSyms

None == [some |-> FALSE, value |-> <<>>]
Some(v) == [some |-> TRUE, value |-> v]

\* binfarce fills crate_name for the V0 scheme only.
SymbolNames ==
    {[complete |-> c, trimmed |-> c, kind |-> k, crate_name |-> cn] :
        c \in Completes, k \in {"Legacy", "V0", "Unknown"}, cn \in {None}}
    \cup {[complete |-> c, trimmed |-> c, kind |-> "V0", crate_name |-> Some(UnitC)] :
        c \in Completes}

RECURSIVE UnitLists(_, _)
UnitLists(units, n) ==
    IF n = 0 THEN {<<>>}
    ELSE LET prev == UnitLists(units, n - 1)
         IN  prev \cup {Append(v, u) : v \in prev, u \in units}

EmptyIndex == [k \in {} |-> <<>>]

\* An index that records the key under the units of v.
IndexOf(key, v) == [k \in {key} |-> v]

StdDepChoices == {<<{UnitA}, {}>>, <<{}, {UnitA}>>, <<{}, {}>>}

BuildContext(sd, index) ==
    [std_crates |-> sd[1], dep_crates |-> sd[2], deps_symbols |-> index]

\* The contexts from_sym is called with for the symbol named c.
ResolverContexts(c) ==
    {BuildContext(sd, index) :
        sd \in StdDepChoices,
        index \in {EmptyIndex} \cup
                  {IndexOf(c, v) : v \in {<<UnitA>>, <<UnitB, UnitA>>, <<Resvg>>}}}

\* The contexts parse_sym is called with for the symbol named c.
ParseSymContexts(c) ==
    {BuildContext(<<{}, {}>>, index) :
        index \in {EmptyIndex} \cup
                  {IndexOf(c, v) : v \in UnitLists({UnitA, UnitB, UnitC, Euclid, Resvg},
                                                   MaxUnits) \ {<<>>}}}

ResolverIdle ==
    /\ context = NotCalled /\ sym = NotCalled /\ std_handling = "Split"
    /\ impl_ret = NotCalled /\ ret = NotCalled

\* One call of from_sym.
FromSym ==
    /\ ret = NotCalled
    /\ \E s \in SymbolNames, handling \in {"Split", "Merged"} :
       \E ctx \in ResolverContexts(s.complete) :
        /\ sym' = s
        /\ context' = ctx
        /\ std_handling' = handling
        /\ impl_ret' = from_sym_impl(ctx, s)
        /\ ret' = from_sym(ctx, handling, s)
    /\ UNCHANGED exceptResolver

\* What a second call leaves alone: everything but its return value.
exceptAgain ==
    <<extractVars, resolverVars, indexVars, irVars, irDirVars, analyzeVars,
      reportingVars, pdbVars, heuristicVars, hashVars, top_listing,
      size_change_total>>

\* A second call that answers with what from_sym_impl returned to the first.
FromSymAgainFromImpl ==
    /\ ret # NotCalled
    /\ ret_again = NotCalled
    /\ ret_again' = impl_ret
    /\ UNCHANGED exceptAgain

\* A second call of from_sym, with the context, the mode and the symbol of
\* the first: the context is borrowed immutably, so it is what it was.
FromSymAgain ==
    /\ ret # NotCalled
    /\ ret_again = NotCalled
    /\ ret_again' = from_sym(context, std_handling, sym)
    /\ UNCHANGED exceptAgain

\* One call of parse_sym, as from_sym_impl makes it for a legacy symbol.
ParseSym ==
    /\ impl_ret = NotCalled
    /\ \E c \in Completes :
       \E ctx \in ParseSymContexts(c) :
        /\ sym' = [complete |-> c, trimmed |-> c, kind |-> "Legacy", crate_name |-> None]
        /\ context' = ctx
        /\ std_handling' = "Split"
        /\ impl_ret' = parse_sym(ctx, c)
        /\ ret' = NotCalled
    /\ UNCHANGED exceptResolver

----------------------------------------------------------------------------
(* Binary symbol extractor: collect_self_data                              *)

MaxSyms == 3
MaxAddr == 3
MaxSize == 1

Ok(fields) == [status |-> "Ok"] @@ fields
Err(error) == [status |-> "Err", error |-> error]

\* slice::sort_by_key is a stable sort: x, which precedes every element of
\* the sorted rest in the input, goes before the first element whose key is
\* not smaller.
RECURSIVE insert_by_address(_, _)
insert_by_address(x, v) ==
    IF v = <<>> THEN <<x>>
    ELSE IF x.address <= Head(v).address THEN <<x>> \o v
    ELSE <<Head(v)>> \o insert_by_address(x, Tail(v))

RECURSIVE sort_by_key_address(_)
sort_by_key_address(v) ==
    IF v = <<>> THEN <<>>
    ELSE insert_by_address(Head(v), sort_by_key_address(Tail(v)))

\* dedup_by_key_address with the last of a run kept instead of the first.
RECURSIVE dedup_by_key_address_keep_last(_)
dedup_by_key_address_keep_last(v) ==
    IF Len(v) <= 1 THEN v
    ELSE LET rest == dedup_by_key_address_keep_last(Tail(v))
         IN  IF Head(v).address = Head(rest).address
             THEN rest
             ELSE <<Head(v)>> \o rest

\* Vec::dedup_by_key removes all but the first of consecutive elements with
\* the same key.
RECURSIVE dedup_by_key_address(_)
dedup_by_key_address(v) ==
    IF Len(v) <= 1 THEN v
    ELSE LET rest == dedup_by_key_address(Tail(v))
         IN  IF Head(v).address = Head(rest).address
             THEN <<Head(v)>> \o Tail(rest)
             ELSE <<Head(v)>> \o rest

\* lib.rs collect_self_data; p is what the file and its parser give:
\* whether it can be mapped, its format, and the parser's result.
collect_self_data(p) ==
    IF ~p.mapped THEN Err("OpenFailed")
    ELSE IF p.format = "Unknown" THEN Err("UnsupportedFileFormat")
    ELSE IF p.parser.status = "Err" THEN Err("ParsingError")
    ELSE Ok([symbols |-> dedup_by_key_address(sort_by_key_address(p.parser.symbols)),
             file_size |-> p.file_size,
             text_size |-> p.parser.text_size,
             enriched_symbols |-> None,
             llvm_ir_data |-> None])

\* Names of the symbols of a binary: a::f and <a::T as b::U>::f.
BinaryNames ==
    {[complete |-> c, trimmed |-> c, kind |-> "Legacy", crate_name |-> None] :
        c \in {<<"a", ":", ":", "f">>,
               <<"<", "a", ":", ":", "T">> \o AsSep \o
                   <<"b", ":", ":", "U", ">", ":", ":", "f">>}}

SymbolData == [name : BinaryNames, address : 1..MaxAddr, size : 1..MaxSize]

RECURSIVE SeqsUpTo(_, _)
SeqsUpTo(S, n) ==
    IF n = 0 THEN {<<>>}
    ELSE LET prev == SeqsUpTo(S, n - 1)
         IN  prev \cup {Append(v, x) : v \in prev, x \in S}

\* What the parsers can make of a file.
ParsedFiles ==
    {[mapped |-> FALSE, format |-> "Unknown", parser |-> Err("ParsingError"),
      file_size |-> 0]}
    \cup {[mapped |-> TRUE, format |-> "Unknown", parser |-> Err("ParsingError"),
           file_size |-> 8]}
    \cup {[mapped |-> TRUE, format |-> f, parser |-> Err("ParsingError"),
           file_size |-> 8] : f \in {"Elf32", "Elf64", "Macho", "PE"}}
    \cup {[mapped |-> TRUE, format |-> "Elf64",
           parser |-> Ok([symbols |-> v, text_size |-> 4]), file_size |-> 8] :
          v \in SeqsUpTo(SymbolData, MaxSyms)}

ExtractIdle == parsed = NotCalled /\ d = NotCalled

\* One call of collect_self_data.
CollectSelfData ==
    /\ d = NotCalled
    /\ \E p \in ParsedFiles :
        /\ parsed' = p
        /\ d' = collect_self_data(p)
    /\ UNCHANGED exceptExtract

----------------------------------------------------------------------------
(* Dependency symbol index: collect_deps_symbols                           *)

MaxLibs == 3

\* MultiMap::insert appends the value to the vector under the key.
multimap_insert(m, key, value) ==
    [k \in DOMAIN m \cup {key} |->
        IF k = key
        THEN (IF key \in DOMAIN m THEN Append(m[key], value) ELSE <<value>>)
        ELSE m[k]]

\* Vec::dedup removes all but the first of consecutive equal elements.
RECURSIVE dedup(_)
dedup(v) ==
    IF Len(v) <= 1 THEN v
    ELSE LET rest == dedup(Tail(v))
         IN  IF Head(v) = Head(rest) THEN rest ELSE <<Head(v)>> \o rest

RECURSIVE insert_all(_, _, _)
insert_all(m, syms, name) ==
    IF syms = <<>> THEN m
    ELSE insert_all(multimap_insert(m, Head(syms), name), Tail(syms), name)

\* The loop over libs; archives gives, per path, whether the file can be
\* mapped and what ar::parse makes of it.
RECURSIVE insert_libs(_, _, _)
insert_libs(m, ls, archives) ==
    IF ls = <<>> THEN Ok([map |-> m])
    ELSE LET name == Head(ls)[1]
             file == archives[Head(ls)[2]]
         IN  IF ~file.mapped THEN Err("OpenFailed")
             ELSE IF file.parser.status = "Err" THEN Err("ParsingError")
             ELSE insert_libs(insert_all(m, file.parser.symbols, name), Tail(ls), archives)

collect_deps_symbols(ls, archives) ==
    LET inserted == insert_libs(EmptyIndex, ls, archives)
    IN  IF inserted.status = "Err" THEN inserted
        ELSE Ok([map |-> [k \in DOMAIN inserted.map |-> dedup(inserted.map[k])]])

Sym1 == <<"a", ":", ":", "f">>
Sym2 == <<"b", ":", ":", "g">>

\* The archive files on disk, by path.
Archives ==
    [path \in {"liba.rlib", "libb.rlib", "libc.rlib", "missing.rlib", "broken.rlib"} |->
        CASE path = "liba.rlib" ->
                [mapped |-> TRUE, parser |-> Ok([symbols |-> <<Sym1>>])]
          [] path = "libb.rlib" ->
                [mapped |-> TRUE, parser |-> Ok([symbols |-> <<Sym1, Sym2>>])]
          [] path = "libc.rlib" ->
                [mapped |-> TRUE, parser |-> Ok([symbols |-> <<Sym2, Sym2>>])]
          [] path = "missing.rlib" ->
                [mapped |-> FALSE, parser |-> Err("ParsingError")]
          [] path = "broken.rlib" ->
                [mapped |-> TRUE, parser |-> Err("ParsingError")]]

LibLists == SeqsUpTo({UnitA, UnitB} \X DOMAIN Archives, MaxLibs)

IndexIdle == libs = <<>> /\ map = NotCalled

\* One call of collect_deps_symbols.
CollectDepsSymbols ==
    /\ map = NotCalled
    /\ \E ls \in LibLists :
        /\ libs' = ls
        /\ map' = collect_deps_symbols(ls, Archives)
    /\ UNCHANGED exceptIndex

----------------------------------------------------------------------------
(* IR instantiation analyzer, one text: llvm_ir.rs analyze_llvm_ir_data    *)

MaxLines == 4

HashLen == 16
HashSuffixLen == 19

HexDigits == {"0", "1", "2", "3", "4", "5", "6", "7", "8", "9",
              "a", "b", "c", "d", "e", "f"}

is_ascii_hexdigit(byte) == byte \in HexDigits

\* has_hash without the test of the `::h` before the 16 hex digits.
has_hash_any_marker(name) ==
    LET n == Len(name)
    IN  /\ n >= HashSuffixLen
        /\ \A i \in (n - HashLen + 1)..n : is_ascii_hexdigit(name[i])

\* The last 16 bytes are hex digits and `::h` precedes them.
has_hash(name) ==
    LET n == Len(name)
    IN  /\ n >= HashLen
        /\ \A i \in (n - HashLen + 1)..n : is_ascii_hexdigit(name[i])
        /\ n >= HashSuffixLen
        /\ name[n - HashLen] = "h"
        /\ name[n - HashLen - 1] = ":"
        /\ name[n - HashLen - 2] = ":"

RECURSIVE trim_end_matches(_, _)
trim_end_matches(s, ch) ==
    IF Len(s) > 0 /\ s[Len(s)] = ch
    THEN trim_end_matches(SubSeq(s, 1, Len(s) - 1), ch)
    ELSE s

trim_matches(s, ch) == trim_end_matches(strip_leading(s, ch), ch)

\* _ZN1f17h1111111111111111E
MangledF ==
    <<"_", "Z", "N", "1", "f", "1", "7", "h", "1", "1", "1", "1", "1", "1", "1",
      "1", "1", "1", "1", "1", "1", "1", "1", "1", "E">>

\* f::h0123456789abcdef
HashedF ==
    <<"f", ":", ":", "h", "0", "1", "2", "3", "4", "5", "6", "7", "8", "9",
      "a", "b", "c", "d", "e", "f">>

\* binfarce's SymbolName::demangle(mangled).trimmed: the path without the
\* hash for a mangled Rust name, the name itself for any other name.
demangle_trimmed(mangled) ==
    IF mangled = MangledF THEN <<"f">> ELSE mangled

parse_function_name(line) ==
    LET at == find(line, <<"@">>)
    IN  IF at = 0 THEN None
        ELSE LET rest == SubSeq(line, at + 1, Len(line))
                 paren == find(rest, <<"(">>)
             IN  IF paren = 0 THEN None
                 ELSE LET mangled == trim_matches(SubSeq(rest, 1, paren - 1), "\"")
                          name == demangle_trimmed(mangled)
                      IN  IF has_hash(name)
                          THEN Some(SubSeq(name, 1, Len(name) - HashSuffixLen))
                          ELSE Some(name)

\* LlvmFunction::record_lines
record_lines(func, lines) ==
    [func EXCEPT !.copies = @ + 1, !.lines = @ + lines]

\* entry(name).and_modify(record_lines(count)).or_insert_with(..)
record_function(inst, name, count) ==
    [k \in DOMAIN inst \cup {name} |->
        IF k = name
        THEN (IF name \in DOMAIN inst THEN record_lines(inst[name], count)
              ELSE [name |-> <<>>, lines |-> count, copies |-> 1])
        ELSE inst[k]]

DefineKw == <<"d", "e", "f", "i", "n", "e", " ">>
CloseBrace == <<"}">>

\* The loop over the lines, from line i on.
RECURSIVE scan_lines(_, _, _, _, _)
scan_lines(lines, i, inst, current_function, count) ==
    IF i > Len(lines) THEN inst
    ELSE LET line == lines[i]
         IN  IF starts_with(line, DefineKw)
             THEN scan_lines(lines, i + 1, inst, parse_function_name(line), count)
             ELSE IF line = CloseBrace
             THEN scan_lines(lines, i + 1,
                             IF current_function.some
                             THEN record_function(inst, current_function.value, count)
                             ELSE inst,
                             None, 0)
             ELSE IF starts_with(line, <<" ", " ">>) /\ ~starts_with(line, <<" ", " ", " ">>)
             THEN scan_lines(lines, i + 1, inst, current_function, count + 1)
             ELSE scan_lines(lines, i + 1, inst, current_function, count)

NoFunctions == [k \in {} |-> <<>>]

\* lines is the text as str::lines() splits it.
analyze_llvm_ir_data(lines) == scan_lines(lines, 1, NoFunctions, None, 0)

\* define @"f::h0123456789abcdef"(ptr %x) {
DefineHashedF ==
    <<"d", "e", "f", "i", "n", "e", " ", "@", "\"">> \o HashedF \o <<"\"", "(", ")", " ", "{">>
\* define @_ZN1f17h1111111111111111E() {
DefineMangledF ==
    <<"d", "e", "f", "i", "n", "e", " ", "@">> \o MangledF \o <<"(", ")", " ", "{">>
\* define @g() {
DefineG == <<"d", "e", "f", "i", "n", "e", " ", "@", "g", "(", ")", " ", "{">>
\* define g {
DefineUnnamed == <<"d", "e", "f", "i", "n", "e", " ", "g", " ", "{">>
BodyLine == <<" ", " ", "x">>
NestedLine == <<" ", " ", " ", " ", "x">>
LabelLine == <<"s", "t", "a", "r", "t", ":">>

IrLines == {DefineHashedF, DefineMangledF, DefineG, DefineUnnamed, CloseBrace,
            BodyLine, NestedLine, LabelLine}

\* The text of test_llvm_ir_analysis: g once with a body of 4 statements,
\* f twice with bodies of 4 and 2 statements.
ScenarioIr ==
    <<LabelLine, <<>>,
      DefineG, LabelLine, BodyLine, BodyLine, BodyLine, BodyLine, CloseBrace, <<>>,
      DefineHashedF, LabelLine, BodyLine, BodyLine, BodyLine, BodyLine, CloseBrace, <<>>,
      DefineMangledF, LabelLine, BodyLine, BodyLine, CloseBrace>>

IrTexts == SeqsUpTo(IrLines, MaxLines) \cup {ScenarioIr}

IrIdle == ir = <<>> /\ instantiations = NotCalled

\* One call of analyze_llvm_ir_data.
AnalyzeLlvmIrData ==
    /\ instantiations = NotCalled
    /\ \E text \in IrTexts :
        /\ ir' = text
        /\ instantiations' = Ok([functions |-> analyze_llvm_ir_data(text)])
    /\ UNCHANGED exceptIr

----------------------------------------------------------------------------
(* Aggregation of the IR functions of all crates:                          *)
(* types.rs BuildContext::all_llvm_functions                               *)

\* crates is the sequence of the crates of the build context, each with its
\* name and its map llvm_functions; the aggregates are keyed by the name
\* field of the functions.
all_llvm_functions(crates) ==
    LET entries == {<<i, k>> \in (1..Len(crates)) \X
                        UNION {DOMAIN crates[j].llvm_functions : j \in 1..Len(crates)} :
                      k \in DOMAIN crates[i].llvm_functions}
        func(e) == crates[e[1]].llvm_functions[e[2]]
        fnames == {func(e).name : e \in entries}
    IN  [fname \in fnames |->
            LET mine == {e \in entries : func(e).name = fname}
            IN  [name |-> fname,
                 total_llvm_lines |-> SumFn([e \in mine |-> func(e).lines]),
                 copies |-> SumFn([e \in mine |-> func(e).copies]),
                 crates |-> {crates[e[1]].name : e \in mine}]]

----------------------------------------------------------------------------
(* IR instantiation analyzer, all files of a build directory:              *)
(* llvm_ir.rs analyze_llvm_ir_from_target_dir                              *)

MaxFiles == 3

ErrAt(error, path) == [status |-> "Err", error |-> error, path |-> path]

\* The IR files on disk, by path: whether fs::read succeeds, and the lines.
IrFiles ==
    [path \in {"a.ll", "b.ll", "c.ll", "missing.ll"} |->
        CASE path = "a.ll" ->
                [readable |-> TRUE,
                 data |-> <<DefineG, LabelLine, BodyLine, CloseBrace>>]
          [] path = "b.ll" ->
                [readable |-> TRUE,
                 data |-> <<DefineHashedF, BodyLine, BodyLine, CloseBrace,
                            DefineG, CloseBrace>>]
          [] path = "c.ll" ->
                [readable |-> TRUE,
                 data |-> <<DefineMangledF, BodyLine, CloseBrace>>]
          [] path = "missing.ll" ->
                [readable |-> FALSE, data |-> <<>>]]

\* The closure a worker task runs for one file.
analyze_file(files, ll_file) ==
    IF ~files[ll_file].readable THEN ErrAt("OpenFailed", ll_file)
    ELSE Ok([functions |-> analyze_llvm_ir_data(files[ll_file].data)])

\* merge_functions with a plain insert: the later file's entry replaces the
\* earlier one.
merge_functions_insert(acc, file_functions) ==
    [k \in DOMAIN acc \cup DOMAIN file_functions |->
        IF k \in DOMAIN file_functions THEN file_functions[k] ELSE acc[k]]

\* The body of the merge loop: sum the lines and copies of a function that
\* is already present, insert the others.
merge_functions(acc, file_functions) ==
    [k \in DOMAIN acc \cup DOMAIN file_functions |->
        IF k \in DOMAIN acc /\ k \in DOMAIN file_functions
        THEN [acc[k] EXCEPT !.copies = @ + file_functions[k].copies,
                            !.lines = @ + file_functions[k].lines]
        ELSE IF k \in DOMAIN file_functions THEN file_functions[k]
        ELSE acc[k]]

\* merge_results passing over the results that are errors.
RECURSIVE merge_results_skip_errors(_, _, _)
merge_results_skip_errors(acc, rs, i) ==
    IF i > Len(rs) THEN Ok([functions |-> acc])
    ELSE IF rs[i].status = "Err" THEN merge_results_skip_errors(acc, rs, i + 1)
    ELSE merge_results_skip_errors(merge_functions(acc, rs[i].functions), rs, i + 1)

\* The merge loop over the collected results, in the order of ll_files; the
\* first error ends the call.
RECURSIVE merge_results(_, _, _)
merge_results(acc, rs, i) ==
    IF i > Len(rs) THEN Ok([functions |-> acc])
    ELSE IF rs[i].status = "Err" THEN rs[i]
    ELSE merge_results(merge_functions(acc, rs[i].functions), rs, i + 1)

Pending == [status |-> "Pending"]
Running == [status |-> "Running"]

IrDirIdle == ll_files = <<>> /\ results = <<>> /\ functions = NotCalled

\* The call starts: find_llvm_ir_files fails, finds nothing, or returns the
\* paths, and one task per path is handed to the worker pool.
StartAnalysis ==
    /\ functions = NotCalled
    /\ \/ /\ functions' = Err("OpenFailed")
          /\ UNCHANGED <<ll_files, results>>
       \/ \E paths \in SeqsUpTo(DOMAIN IrFiles, MaxFiles) :
            /\ ll_files' = paths
            /\ results' = [i \in 1..Len(paths) |-> Pending]
            /\ functions' = IF paths = <<>> THEN Err("CargoError") ELSE Running
    /\ UNCHANGED exceptIrDir

\* The task of path i finishes; the tasks finish in any order.
WorkerFinishes ==
    /\ functions = Running
    /\ \E i \in 1..Len(ll_files) :
        /\ results[i] = Pending
        /\ results' = [results EXCEPT ![i] = analyze_file(IrFiles, ll_files[i])]
    /\ UNCHANGED <<ll_files, functions>>
    /\ UNCHANGED exceptIrDir

\* collect() has every result; the merge loop runs to its end.
MergeResults ==
    /\ functions = Running
    /\ \A i \in 1..Len(ll_files) : results[i] # Pending
    /\ functions' = merge_results(NoFunctions, results, 1)
    /\ UNCHANGED <<ll_files, results>>
    /\ UNCHANGED exceptIrDir

----------------------------------------------------------------------------
(* Unit attribution of an IR function name:                                *)
(* crate_name.rs extract_crate_from_function                               *)

Digits == {"0", "1", "2", "3", "4", "5", "6", "7", "8", "9"}
LowerLetters == {"a", "b", "c", "d", "e", "f", "g", "h", "i", "j", "k", "l", "m",
                 "n", "o", "p", "q", "r", "s", "t", "u", "v", "w", "x", "y", "z"}
UpperLetters == {"A", "B", "C", "D", "E", "F", "G", "H", "I", "J", "K", "L", "M",
                 "N", "O", "P", "Q", "R", "S", "T", "U", "V", "W", "X", "Y", "Z"}

is_numeric(c) == c \in Digits
is_alphanumeric(c) == c \in Digits \cup LowerLetters \cup UpperLetters
is_uppercase(c) == c \in UpperLetters

UnknownCrate == <<"u", "n", "k", "n", "o", "w", "n">>

StdCrateNames ==
    <<<<"c", "o", "r", "e">>, <<"a", "l", "l", "o", "c">>, <<"s", "t", "d">>,
      <<"p", "r", "o", "c", "_", "m", "a", "c", "r", "o">>, <<"t", "e", "s", "t">>>>

\* The condition both the first part and the later parts are tested with.
known_crate_pattern(part) ==
    /\ part # <<>>
    /\ ~starts_with(part, <<"<">>)
    /\ ~starts_with(part, <<"_">>)
    /\ ~(\A i \in 1..Len(part) : is_numeric(part[i]))
    /\ \A i \in 1..Len(part) : is_alphanumeric(part[i]) \/ part[i] = "_"

\* The name with the `<T as ` of a trait implementation taken off.
cleaned_function_name(func_name) ==
    IF starts_with(func_name, <<"<">>)
    THEN LET as_pos == find(func_name, AsSep)
         IN  IF as_pos # 0
             THEN LET after_as == SubSeq(func_name, as_pos + 4, Len(func_name))
                      end1 == find(after_as, <<">", ":", ":">>)
                      end2 == find(after_as, <<">">>)
                  IN  IF end1 # 0 THEN SubSeq(after_as, 1, end1 - 1)
                      ELSE IF end2 # 0 THEN SubSeq(after_as, 1, end2 - 1)
                      ELSE after_as
             ELSE LET space_pos == find(func_name, <<" ">>)
                  IN  IF space_pos # 0
                      THEN SubSeq(func_name, space_pos + 1, Len(func_name))
                      ELSE func_name
    ELSE func_name

\* The loop over the parts: the first one that matches the pattern and does
\* not start with an upper-case letter.
RECURSIVE first_crate_part(_, _)
first_crate_part(parts, i) ==
    IF i > Len(parts) THEN UnknownCrate
    ELSE IF known_crate_pattern(parts[i]) /\ ~is_uppercase(parts[i][1])
    THEN parts[i]
    ELSE first_crate_part(parts, i + 1)

extract_crate_from_function(func_name) ==
    LET parts == split(cleaned_function_name(func_name), PathSep)
        first_part == parts[1]
    IN  IF vec_contains(StdCrateNames, first_part) THEN first_part
        ELSE IF known_crate_pattern(first_part) THEN first_part
        ELSE first_crate_part(parts, 1)

----------------------------------------------------------------------------
(* The search for IR files: lib.rs find_llvm_ir_files                      *)

\* A path is the sequence of its components; a file system gives, for the
\* path of each directory, whether read_dir succeeds and its entries in the
\* order read_dir yields them.
join(path, component) == Append(path, component)

\* The index of the last occurrence of ch in s, 0 if there is none.
RECURSIVE rfind(_, _)
rfind(s, ch) ==
    IF s = <<>> THEN 0
    ELSE IF s[Len(s)] = ch THEN Len(s)
    ELSE rfind(SubSeq(s, 1, Len(s) - 1), ch)

\* Path::extension: what follows the last dot of the file name, none if the
\* name has no dot or only a leading one.
extension(file_name) ==
    LET dot == rfind(file_name, ".")
    IN  IF dot <= 1 THEN None
        ELSE Some(SubSeq(file_name, dot + 1, Len(file_name)))

\* Path::file_stem: the file name without its extension.
file_stem(file_name) ==
    LET dot == rfind(file_name, ".")
    IN  IF dot <= 1 THEN file_name ELSE SubSeq(file_name, 1, dot - 1)

\* str::rsplit_once('-'), the part before the last dash.
rsplit_once_dash(s) ==
    LET dash == rfind(s, "-")
    IN  IF dash = 0 THEN None ELSE Some(SubSeq(s, 1, dash - 1))

LlExt == <<"l", "l">>
BuildScriptUnderscore ==
    <<"b", "u", "i", "l", "d", "_", "s", "c", "r", "i", "p", "t", "_">>
BuildScriptDash ==
    <<"b", "u", "i", "l", "d", "-", "s", "c", "r", "i", "p", "t", "-">>

RECURSIVE find_ll_files_in_dir(_, _, _)
RECURSIVE scan_entries(_, _, _, _)

\* The loop over the entries of dir, from entry i on.
scan_entries(fs, dir, i, found) ==
    IF i > Len(fs[dir].entries) THEN Ok([files |-> found])
    ELSE LET entry == fs[dir].entries[i]
             path == join(dir, entry.name)
         IN  IF entry.is_dir
             THEN LET sub == find_ll_files_in_dir(fs, path, found)
                  IN  IF sub.status = "Err" THEN sub
                      ELSE scan_entries(fs, dir, i + 1, sub.files)
             ELSE IF /\ extension(entry.name) = Some(LlExt)
                     /\ ~starts_with(entry.name, BuildScriptUnderscore)
                     /\ ~starts_with(entry.name, BuildScriptDash)
             THEN scan_entries(fs, dir, i + 1, Append(found, path))
             ELSE scan_entries(fs, dir, i + 1, found)

find_ll_files_in_dir(fs, dir, found) ==
    IF ~fs[dir].readable THEN ErrAt("OpenFailed", dir)
    ELSE scan_entries(fs, dir, 1, found)

\* The loop over the search directories, from directory i on.
RECURSIVE search_from(_, _, _, _)
search_from(fs, search_dirs, i, found) ==
    IF i > Len(search_dirs) THEN Ok([files |-> found])
    ELSE IF search_dirs[i] \in DOMAIN fs
    THEN LET r == find_ll_files_in_dir(fs, search_dirs[i], found)
         IN  IF r.status = "Err" THEN r
             ELSE search_from(fs, search_dirs, i + 1, r.files)
    ELSE search_from(fs, search_dirs, i + 1, found)

DebugDir == <<"d", "e", "b", "u", "g">>
ReleaseDir == <<"r", "e", "l", "e", "a", "s", "e">>
DepsDir == <<"d", "e", "p", "s">>
ExamplesDir == <<"e", "x", "a", "m", "p", "l", "e", "s">>
IncrementalDir == <<"i", "n", "c", "r", "e", "m", "e", "n", "t", "a", "l">>

\* build_type is None, Some("Debug") or Some("Release").
build_dir_of(build_type) ==
    IF build_type.some /\ build_type.value = "Release" THEN ReleaseDir ELSE DebugDir

find_llvm_ir_files(fs, dir, build_type) ==
    LET build_dir == join(dir, build_dir_of(build_type))
        search_dirs == <<build_dir,
                         join(build_dir, DepsDir),
                         join(build_dir, ExamplesDir),
                         join(build_dir, IncrementalDir)>>
    IN  search_from(fs, search_dirs, 1, <<>>)

----------------------------------------------------------------------------
(* analyze_binary: lib.rs                                                  *)

MaxBinarySyms == 2

\* The name given to a function neither its name nor its file name places;
\* the constant is imported from the types module.
UNDEMANGLED_CRATE == <<"?">>

\* The entry of a file in its directory.
read_entry(fs, path) ==
    LET dir == SubSeq(path, 1, Len(path) - 1)
        named == {i \in 1..Len(fs[dir].entries) :
                    fs[dir].entries[i].name = path[Len(path)]}
    IN  fs[dir].entries[CHOOSE i \in named : TRUE]

\* The crate an IR function of the file ll_file is counted under.
crate_name_str(func_name, ll_file) ==
    LET extracted == extract_crate_from_function(func_name)
    IN  IF extracted = UnknownCrate
        THEN LET crate_part == rsplit_once_dash(file_stem(ll_file[Len(ll_file)]))
             IN  IF crate_part.some THEN crate_part.value ELSE UNDEMANGLED_CRATE
        ELSE extracted

EmptyAnalysis ==
    [crates |-> [c \in {} |-> NoFunctions], total_lines |-> 0, total_copies |-> 0]

\* The loop over the functions of one file: each is added to the entry of
\* its crate and its name, and to the totals.
add_instantiations(acc, ll_file, inst) ==
    LET crate_names == {crate_name_str(n, ll_file) : n \in DOMAIN inst}
        Old(c) == IF c \in DOMAIN acc.crates THEN acc.crates[c] ELSE NoFunctions
        New(c) == {n \in DOMAIN inst : crate_name_str(n, ll_file) = c}
        Copies(c, n) == (IF n \in DOMAIN Old(c) THEN Old(c)[n].copies ELSE 0)
                        + (IF n \in New(c) THEN inst[n].copies ELSE 0)
        Lines(c, n) == (IF n \in DOMAIN Old(c) THEN Old(c)[n].total_lines ELSE 0)
                       + (IF n \in New(c) THEN inst[n].lines ELSE 0)
    IN  [crates |-> [c \in DOMAIN acc.crates \cup crate_names |->
                        [n \in DOMAIN Old(c) \cup New(c) |->
                            [copies |-> Copies(c, n), total_lines |-> Lines(c, n)]]],
         total_lines |-> acc.total_lines + SumFn([n \in DOMAIN inst |-> inst[n].lines]),
         total_copies |-> acc.total_copies + SumFn([n \in DOMAIN inst |-> inst[n].copies])]

\* The loop over the files, from file i on; a file that cannot be read ends
\* the call.
RECURSIVE analyze_files(_, _, _, _)
analyze_files(fs, files, i, acc) ==
    IF i > Len(files) THEN Ok(acc @@ [analyzed_files |-> files])
    ELSE LET file == read_entry(fs, files[i])
         IN  IF ~file.readable THEN ErrAt("OpenFailed", files[i])
             ELSE analyze_files(fs, files, i + 1,
                                add_instantiations(acc, files[i],
                                                   analyze_llvm_ir_data(file.data)))

\* BloatAnalyzer::analyze_llvm_ir_from_target_dir
analyze_llvm_ir_from_target_dir(fs, dir, build_type) ==
    LET found == find_llvm_ir_files(fs, dir, build_type)
    IN  IF found.status = "Err" THEN found
        ELSE IF found.files = <<>> THEN Err("CargoError")
        ELSE analyze_files(fs, found.files, 1, EmptyAnalysis)

\* The StdHandling from_sym is called with for a value of split_std.
std_handling_of(split_std) == IF split_std THEN "Split" ELSE "Merged"

\* The result with symbols taken and the attributed symbols put in their
\* place; a panic of from_sym unwinds through the call.
enriched_with(self, attributed) ==
    IF \E i \in 1..Len(attributed) : attributed[i].status = "Panicked"
    THEN [status |-> "Panicked"]
    ELSE [self EXCEPT
            !.symbols = <<>>,
            !.enriched_symbols =
                Some([i \in 1..Len(attributed) |->
                        [data |-> self.symbols[i],
                         crate_name |-> attributed[i].name]])]

\* AnalysisResult::enrich_symbols: each symbol is paired with the name
\* from_sym attributes it to.
enrich_symbols(self, ctx, split_std) ==
    enriched_with(self, [i \in 1..Len(self.symbols) |->
                            from_sym(ctx, std_handling_of(split_std),
                                     self.symbols[i].name)])

TargetDir == <<"t", "a", "r", "g", "e", "t">>

\* target_dir.as_deref().unwrap_or("target")
target_dir_of(cfg) ==
    IF cfg.target_dir.some THEN cfg.target_dir.value ELSE <<TargetDir>>

\* collect_self_data(..)? and enrich_symbols: an error of the extractor is
\* returned as it is.
collect_and_enrich(collected, ctx, split_std) ==
    IF collected.status = "Err" THEN collected
    ELSE enrich_symbols(collected, ctx, split_std)

\* The match with the failure of the IR analysis returned to the caller.
match_llvm_analysis_propagate(res, llvm_analysis) ==
    IF llvm_analysis.status = "Ok"
    THEN [res EXCEPT !.llvm_ir_data = Some(llvm_analysis)]
    ELSE llvm_analysis

\* The match on what analyze_llvm_ir_from_target_dir returned: an error is
\* logged and the result is left as it is.
match_llvm_analysis(res, llvm_analysis) ==
    IF llvm_analysis.status = "Ok"
    THEN [res EXCEPT !.llvm_ir_data = Some(llvm_analysis)]
    ELSE res

\* The part of analyze_binary after enrich_symbols.
add_llvm_ir_data(res, cfg, fs) ==
    IF res.status # "Ok" \/ ~cfg.analyze_llvm_ir THEN res
    ELSE match_llvm_analysis(
             res,
             analyze_llvm_ir_from_target_dir(fs, target_dir_of(cfg), cfg.build_type))

\* p is what the binary and its parser give, fs the file system.
analyze_binary(p, ctx, cfg, fs) ==
    add_llvm_ir_data(collect_and_enrich(collect_self_data(p), ctx, cfg.split_std),
                     cfg, fs)

----------------------------------------------------------------------------
(* Inputs of analyze_binary.                                               *)

File(name, readable, data) ==
    [name |-> name, is_dir |-> FALSE, readable |-> readable, data |-> data]
Dir(name) == [name |-> name, is_dir |-> TRUE, readable |-> TRUE, data |-> <<>>]

\* define @"<T>"() {
DefineGenericT ==
    <<"d", "e", "f", "i", "n", "e", " ", "@", "\"", "<", "T", ">", "\"", "(", ")", " ", "{">>

ALl == File(<<"a", ".", "l", "l">>, TRUE,
            <<DefineG, BodyLine, CloseBrace, DefineGenericT, CloseBrace>>)
SerdeLl == File(<<"s", "e", "r", "d", "e", "-", "1", ".", "l", "l">>, TRUE,
                <<DefineGenericT, BodyLine, CloseBrace, DefineG, CloseBrace>>)
UnreadableLl == File(<<"x", ".", "l", "l">>, FALSE, <<>>)
BuildScriptLl ==
    File(BuildScriptUnderscore \o <<"b", ".", "l", "l">>, TRUE,
         <<DefineG, BodyLine, CloseBrace>>)
SourceFile == File(<<"c", ".", "r", "s">>, TRUE, <<>>)

OutDir == <<"o", "u", "t">>
DebugPath == <<TargetDir, DebugDir>>
ReleasePath == <<TargetDir, ReleaseDir>>

Directory(readable, entries) == [readable |-> readable, entries |-> entries]

\* No target directory at all.
FsNone == [path \in {} |-> Directory(TRUE, <<>>)]
\* A debug build without IR: a source file and the IR of a build script.
FsNoIr == DebugPath :> Directory(TRUE, <<SourceFile, BuildScriptLl>>)
\* A debug build with IR next to the binary and in deps.
FsIr ==
    (DebugPath :> Directory(TRUE, <<ALl, Dir(DepsDir)>>))
    @@ (join(DebugPath, DepsDir) :> Directory(TRUE, <<SerdeLl>>))
FsUnreadableFile == DebugPath :> Directory(TRUE, <<ALl, UnreadableLl>>)
FsUnreadableDir == DebugPath :> Directory(FALSE, <<>>)
\* IR in the release build only.
FsRelease ==
    (DebugPath :> Directory(TRUE, <<>>))
    @@ (ReleasePath :> Directory(TRUE, <<ALl>>))

FileSystems == {FsNone, FsNoIr, FsIr, FsUnreadableFile, FsUnreadableDir, FsRelease}

\* a::f, <a::T as b::U>::f and <::, which parse_crate_from_sym panics on.
AnalyzedNames ==
    BinaryNames \cup
    {[complete |-> c, trimmed |-> c, kind |-> "Legacy", crate_name |-> None] :
        c \in {<<"<", ":", ":">>}}

AnalyzedSymbols == [name : AnalyzedNames, address : {1, 2}, size : {1}]

Binaries ==
    {[mapped |-> FALSE, format |-> "Unknown", parser |-> Err("ParsingError"),
      file_size |-> 0],
     [mapped |-> TRUE, format |-> "Elf64", parser |-> Err("ParsingError"),
      file_size |-> 8]}
    \cup {[mapped |-> TRUE, format |-> "Elf64",
           parser |-> Ok([symbols |-> v, text_size |-> 4]), file_size |-> 8] :
          v \in SeqsUpTo(AnalyzedSymbols, MaxBinarySyms)}

AnalyzeContexts ==
    {BuildContext(<<{UnitA}, {}>>, EmptyIndex),
     BuildContext(<<{}, {}>>, IndexOf(<<"a", ":", ":", "f">>, <<UnitB>>))}

NoBuildType == [some |-> FALSE, value |-> ""]

Configs ==
    [split_std : BOOLEAN, analyze_llvm_ir : BOOLEAN,
     target_dir : {None, Some(<<OutDir>>)},
     build_type : {NoBuildType, Some("Debug"), Some("Release")}]

AnalyzeIdle ==
    /\ config = NotCalled /\ target_dir = NotCalled
    /\ result = [ir_off |-> NotCalled, ir_on |-> NotCalled]

\* What a call of analyze_binary leaves alone.
exceptAnalyze ==
    <<d, sym, std_handling, impl_ret, ret, indexVars, irVars, irDirVars,
      reportingVars, pdbVars, heuristicVars,
      hashVars, derivedVars>>

\* One call of analyze_binary.
AnalyzeBinary ==
    /\ config = NotCalled
    /\ \E p \in Binaries, ctx \in AnalyzeContexts, cfg \in Configs, fs \in FileSystems :
        /\ parsed' = p
        /\ context' = ctx
        /\ config' = cfg
        /\ target_dir' = fs
        /\ result' = [result EXCEPT
                        ![IF cfg.analyze_llvm_ir THEN "ir_on" ELSE "ir_off"] =
                            analyze_binary(p, ctx, cfg, fs)]
    /\ UNCHANGED exceptAnalyze

\* The same run again, with the other setting of analyze_llvm_ir.
AnalyzeBinaryAgain ==
    /\ config # NotCalled
    /\ result.ir_off = NotCalled \/ result.ir_on = NotCalled
    /\ config' = [config EXCEPT !.analyze_llvm_ir = ~@]
    /\ result' = [result EXCEPT
                    ![IF config'.analyze_llvm_ir THEN "ir_on" ELSE "ir_off"] =
                        analyze_binary(parsed, context, config', target_dir)]
    /\ UNCHANGED <<parsed, context, target_dir>>
    /\ UNCHANGED exceptAnalyze

----------------------------------------------------------------------------
(* Comparison engine: lib.rs AnalysisComparison::compare                   *)

MaxSnapSyms == 2

\* An absent size; the value of an absent size is never read.
NoSize == [some |-> FALSE, value |-> 0]

\* The elements of a HashSet or the keys of a HashMap in the order an
\* iteration visits them, which is some order.
RECURSIVE iteration_order(_)
iteration_order(set) ==
    IF set = {} THEN <<>>
    ELSE LET x == CHOOSE x \in set : TRUE
         IN  <<x>> \o iteration_order(set \ {x})

CppCrate == <<"C", "/", "C", "+", "+">>

\* lib.rs extract_crate_from_symbol: C/C++ for a name that starts with `_`
\* or contains `@`, and for the others the steps of
\* extract_crate_from_function, which the function repeats line by line.
extract_crate_from_symbol(symbol) ==
    IF starts_with(symbol, <<"_">>) \/ contains(symbol, <<"@">>) THEN CppCrate
    ELSE extract_crate_from_function(symbol)

\* before_by_demangled / after_by_demangled: per trimmed name, the first
\* symbol of that name and the sum of the sizes of all of them.
by_demangled(datas) ==
    [key \in {datas[i].name.trimmed : i \in 1..Len(datas)} |->
        LET mine == {i \in 1..Len(datas) : datas[i].name.trimmed = key}
        IN  [sym |-> datas[CHOOSE i \in mine : \A j \in mine : i <= j],
             size |-> SumFn([i \in mine |-> datas[i].size])]]

\* The loop over all_demangled, looking a name up in the after index only
\* when the before index lacks it.
symbol_changes_of_either_side(before_by_demangled, after_by_demangled) ==
    LET all_demangled ==
            iteration_order(DOMAIN before_by_demangled \cup DOMAIN after_by_demangled)
    IN  [k \in 1..Len(all_demangled) |->
            LET demangled == all_demangled[k]
            IN  [name |-> IF demangled \in DOMAIN before_by_demangled
                          THEN before_by_demangled[demangled].sym.name.complete
                          ELSE after_by_demangled[demangled].sym.name.complete,
                 demangled |-> demangled,
                 size_before |-> IF demangled \in DOMAIN before_by_demangled
                                 THEN Some(before_by_demangled[demangled].size)
                                 ELSE NoSize,
                 size_after |-> IF demangled \in DOMAIN before_by_demangled
                                THEN NoSize
                                ELSE Some(after_by_demangled[demangled].size)]]

\* The loop over all_demangled.
symbol_changes_of(before_by_demangled, after_by_demangled) ==
    LET all_demangled ==
            iteration_order(DOMAIN before_by_demangled \cup DOMAIN after_by_demangled)
    IN  [k \in 1..Len(all_demangled) |->
            LET demangled == all_demangled[k]
            IN  [name |-> IF demangled \in DOMAIN before_by_demangled
                          THEN before_by_demangled[demangled].sym.name.complete
                          ELSE after_by_demangled[demangled].sym.name.complete,
                 demangled |-> demangled,
                 size_before |-> IF demangled \in DOMAIN before_by_demangled
                                 THEN Some(before_by_demangled[demangled].size)
                                 ELSE NoSize,
                 size_after |-> IF demangled \in DOMAIN after_by_demangled
                                THEN Some(after_by_demangled[demangled].size)
                                ELSE NoSize]]

\* before_crate_sizes / after_crate_sizes; sized is the sequence of the
\* (crate name, size) of the symbols.
crate_sizes(sized) ==
    [c \in {sized[i].crate_name : i \in 1..Len(sized)} |->
        SumFn([i \in {j \in 1..Len(sized) : sized[j].crate_name = c} |-> sized[i].size])]

\* The loop over all_crates.
crate_changes_of(before_crate_sizes, after_crate_sizes) ==
    LET all_crates ==
            iteration_order(DOMAIN before_crate_sizes \cup DOMAIN after_crate_sizes)
    IN  [k \in 1..Len(all_crates) |->
            LET c == all_crates[k]
            IN  [name |-> c,
                 size_before |-> IF c \in DOMAIN before_crate_sizes
                                 THEN Some(before_crate_sizes[c]) ELSE NoSize,
                 size_after |-> IF c \in DOMAIN after_crate_sizes
                                THEN Some(after_crate_sizes[c]) ELSE NoSize]]

\* The symbols compare reads from a snapshot: the raw symbols of the
\* enriched ones when both snapshots are enriched, the field symbols if not.
compared_symbols(snapshot, use_enriched) ==
    IF use_enriched
    THEN [i \in 1..Len(snapshot.enriched_symbols.value) |->
            snapshot.enriched_symbols.value[i].data]
    ELSE snapshot.symbols

\* The crate and the size compare counts for each of these symbols.
compared_crates(snapshot, use_enriched) ==
    IF use_enriched
    THEN [i \in 1..Len(snapshot.enriched_symbols.value) |->
            [crate_name |-> snapshot.enriched_symbols.value[i].crate_name,
             size |-> snapshot.enriched_symbols.value[i].data.size]]
    ELSE [i \in 1..Len(snapshot.symbols) |->
            [crate_name |-> extract_crate_from_symbol(snapshot.symbols[i].name.trimmed),
             size |-> snapshot.symbols[i].size]]

compare(b, a) ==
    LET use_enriched == b.enriched_symbols.some /\ a.enriched_symbols.some
    IN  Ok([file_size_diff |->
                [file_size_before |-> b.file_size, file_size_after |-> a.file_size,
                 text_size_before |-> b.text_size, text_size_after |-> a.text_size],
            symbol_changes |->
                symbol_changes_of(by_demangled(compared_symbols(b, use_enriched)),
                                  by_demangled(compared_symbols(a, use_enriched))),
            crate_changes |->
                crate_changes_of(crate_sizes(compared_crates(b, use_enriched)),
                                 crate_sizes(compared_crates(a, use_enriched)))])

\* The snapshots compared: what analyze_binary's two steps make of a binary,
\* before enrichment (symbols, no enriched symbols) and after it.
AF == <<"a", ":", ":", "f">>
AG == <<"a", ":", ":", "g">>
BG == <<"b", ":", ":", "g">>

ComparedName(t) ==
    [complete |-> t \o <<":", ":", "h">>, trimmed |-> t, kind |-> "Legacy",
     crate_name |-> None]

\* a::f of size 0 or 1, a::g and b::g of size 1, at consecutive addresses.
ComparedSymbols ==
    {[i \in 1..Len(v) |-> [name |-> v[i].name, address |-> i, size |-> v[i].size]] :
        v \in SeqsUpTo([name : {ComparedName(AF)}, size : {0, 1}] \cup
                       [name : {ComparedName(AG), ComparedName(BG)}, size : {1}],
                       MaxSnapSyms)}

RawSnapshots ==
    {collect_self_data([mapped |-> TRUE, format |-> "Elf64",
                        parser |-> Ok([symbols |-> v, text_size |-> 4 + Len(v)]),
                        file_size |-> 8 + Len(v)]) : v \in ComparedSymbols}

EnrichedSnapshots ==
    {enrich_symbols(raw, BuildContext(<<{}, {}>>, EmptyIndex), TRUE) :
        raw \in RawSnapshots}

Snapshots == RawSnapshots \cup EnrichedSnapshots

exceptCompare == <<firstVars, changeVars, reportVars, pdbVars, heuristicVars,
      hashVars, derivedVars>>

\* compare_builds.rs: two analysis results are handed to compare.
Compare ==
    /\ comparison = NotCalled
    /\ \E b \in Snapshots, a \in Snapshots :
        /\ before' = b
        /\ after' = a
        /\ comparison' = compare(b, a)
    /\ UNCHANGED exceptCompare

----------------------------------------------------------------------------
(* Deltas of a change: lib.rs SymbolChange / CrateChange                   *)
(* percent_change and absolute_change. The sizes are u64 and the absolute  *)
(* change i64; the model keeps the two's complement arithmetic at a width  *)
(* of SizeBits bits instead of 64.                                         *)

SizeBits == 10

RECURSIVE pow2(_)
pow2(n) == IF n = 0 THEN 1 ELSE 2 * pow2(n - 1)

\* u64::MAX + 1 and i64::MAX + 1 at the width of the model.
UnsignedRange == pow2(SizeBits)
SignedRange == pow2(SizeBits - 1)

\* `size as i64`: the same bits read as a signed integer.
as_signed(size) == IF size >= SignedRange THEN size - UnsignedRange ELSE size

\* a - b on signed integers: the difference when it fits; when it does not,
\* a panic in a build with overflow checks and the wrapped difference in a
\* build without them.
signed_sub(a, b) ==
    IF a - b >= -SignedRange /\ a - b < SignedRange
    THEN {[status |-> "Returned", value |-> Some(a - b)]}
    ELSE {[status |-> "Panicked"],
          [status |-> "Returned",
           value |-> Some(((a - b + SignedRange) % UnsignedRange) - SignedRange)]}

\* The absent percentage and the absent difference.
NoPercent == [some |-> FALSE, value |-> [num |-> 0, den |-> 1]]
NoDelta == [some |-> FALSE, value |-> 0]

\* percent_change: ((after - before) / before) * 100 on f64, which is exact
\* for the sizes of the model; the value is kept as a fraction.
percent_change(self) ==
    IF self.size_before.some /\ self.size_after.some /\ self.size_before.value > 0
    THEN [some |-> TRUE,
          value |-> [num |-> (self.size_after.value - self.size_before.value) * 100,
                     den |-> self.size_before.value]]
    ELSE NoPercent

\* absolute_change: the outcomes `after as i64 - before as i64` can have.
absolute_change(self) ==
    IF self.size_before.some /\ self.size_after.some
    THEN signed_sub(as_signed(self.size_after.value), as_signed(self.size_before.value))
    ELSE {[status |-> "Returned", value |-> NoDelta]}

\* Absent, and the sizes at the ends and in the middle of the unsigned range.
OptionalSizes ==
    {NoSize} \cup
    {Some(n) : n \in {0, 1, 2, SignedRange - 1, SignedRange, SignedRange + 1,
                      UnsignedRange - 1}}

\* The changes of both kinds; the two impl blocks have the same two methods.
Changes ==
    [kind : {"SymbolChange", "CrateChange"},
     size_before : OptionalSizes, size_after : OptionalSizes]

exceptChange == <<firstVars, compareVars, reportVars, pdbVars, heuristicVars,
      hashVars, derivedVars>>

ChangeDeltas ==
    /\ change = NotCalled
    /\ \E c \in Changes :
        /\ change' = c
        /\ \E outcome \in absolute_change(c) :
              deltas' = [percent |-> percent_change(c), absolute |-> outcome]
    /\ UNCHANGED exceptChange

----------------------------------------------------------------------------
(* Comparison of two reports: reporting.rs ComparisonData::from_reports.   *)
(* A report is modelled by its metrics and its maps all_crates and         *)
(* all_symbols; its build times and IR summary are not.                    *)

\* HashMap::get(name).copied()
get_size(sizes, name) == IF name \in DOMAIN sizes THEN Some(sizes[name]) ELSE NoSize

\* i64::abs
abs(v) == IF v < 0 THEN -v ELSE v

\* A stable sort of seq by the keys, keys[i] being the key of seq[i].
sort_by_key(seq, keys) ==
    LET rank(i) == Cardinality({j \in 1..Len(seq) :
                        keys[j] < keys[i] \/ (keys[j] = keys[i] /\ j < i)}) + 1
    IN  [p \in 1..Len(seq) |-> seq[CHOOSE i \in 1..Len(seq) : rank(i) = p]]

\* reporting.rs CrateChange::absolute_change: the difference of the two
\* sizes, and the size itself, with its sign, of a unit present on one side
\* only. The sizes of the reports of the model are below the signed range,
\* where the difference is exact.
report_absolute_change(self) ==
    IF self.size_before.some /\ self.size_after.some
    THEN Some(as_signed(self.size_after.value) - as_signed(self.size_before.value))
    ELSE IF self.size_after.some THEN Some(as_signed(self.size_after.value))
    ELSE IF self.size_before.some THEN Some(-as_signed(self.size_before.value))
    ELSE NoDelta

\* The key crate_changes is sorted by: absolute_change().map(|v| -v.abs())
\* .unwrap_or(0).
crate_change_key(c) ==
    LET delta == report_absolute_change(c)
    IN  IF delta.some THEN -abs(delta.value) ELSE 0

\* The key symbol_changes is sorted by.
symbol_change_key(c) ==
    IF c.size_before.some /\ c.size_after.some
    THEN -abs(as_signed(c.size_after.value) - as_signed(c.size_before.value))
    ELSE IF c.size_after.some THEN -as_signed(c.size_after.value)
    ELSE IF c.size_before.some THEN -as_signed(c.size_before.value)
    ELSE 0

NewSuffix == <<":", ":", "n", "e", "w">>
RemovedSuffix == <<":", ":", "r", "e", "m", "o", "v", "e", "d">>

\* The body of the filter_map without the guard before != after.
symbol_change_of_any(name, size_before, size_after) ==
    IF size_before.some /\ size_after.some
    THEN Some([name |-> name, demangled |-> name,
               size_before |-> size_before, size_after |-> size_after])
    ELSE IF ~size_before.some /\ size_after.some
    THEN Some([name |-> name \o NewSuffix, demangled |-> name,
               size_before |-> NoSize, size_after |-> size_after])
    ELSE IF size_before.some /\ ~size_after.some
    THEN Some([name |-> name \o RemovedSuffix, demangled |-> name,
               size_before |-> size_before, size_after |-> NoSize])
    ELSE None

\* The body of the filter_map for one name; None for a name that is kept out.
symbol_change_of(name, size_before, size_after) ==
    IF size_before.some /\ size_after.some /\ size_before.value # size_after.value
    THEN Some([name |-> name, demangled |-> name,
               size_before |-> size_before, size_after |-> size_after])
    ELSE IF ~size_before.some /\ size_after.some
    THEN Some([name |-> name \o NewSuffix, demangled |-> name,
               size_before |-> NoSize, size_after |-> size_after])
    ELSE IF size_before.some /\ ~size_after.some
    THEN Some([name |-> name \o RemovedSuffix, demangled |-> name,
               size_before |-> size_before, size_after |-> NoSize])
    ELSE None

\* filter_map(..).collect(): the changes that are Some, in the order of the
\* names.
RECURSIVE filter_map(_)
filter_map(options) ==
    IF options = <<>> THEN <<>>
    ELSE (IF Head(options).some THEN <<Head(options).value>> ELSE <<>>)
         \o filter_map(Tail(options))

report_symbol_changes(baseline_symbols, current_symbols) ==
    LET all_symbols == iteration_order(DOMAIN baseline_symbols \cup DOMAIN current_symbols)
        kept == filter_map([k \in 1..Len(all_symbols) |->
                    symbol_change_of(all_symbols[k],
                                     get_size(baseline_symbols, all_symbols[k]),
                                     get_size(current_symbols, all_symbols[k]))])
    IN  sort_by_key(kept, [k \in 1..Len(kept) |-> symbol_change_key(kept[k])])

report_crate_changes(baseline_crates, current_crates) ==
    LET all_crates == iteration_order(DOMAIN baseline_crates \cup DOMAIN current_crates)
        changes == [k \in 1..Len(all_crates) |->
                       [name |-> all_crates[k],
                        size_before |-> get_size(baseline_crates, all_crates[k]),
                        size_after |-> get_size(current_crates, all_crates[k])]]
    IN  sort_by_key(changes, [k \in 1..Len(changes) |-> crate_change_key(changes[k])])

from_reports(base, cur) ==
    [size_changes |->
        [file_size_diff |-> as_signed(cur.metrics.file_size) - as_signed(base.metrics.file_size),
         text_size_diff |-> as_signed(cur.metrics.text_size) - as_signed(base.metrics.text_size)],
     crate_changes |-> report_crate_changes(base.all_crates, cur.all_crates),
     symbol_changes |-> report_symbol_changes(base.all_symbols, cur.all_symbols)]

\* The names and sizes of test_symbol_comparison.
FooBar == <<"f", "o", "o", ":", ":", "b", "a", "r">>
BazQux == <<"b", "a", "z", ":", ":", "q", "u", "x">>
RemovedSymbol == <<"r", "e", "m", "o", "v", "e", "d", ":", ":", "s", "y", "m", "b", "o", "l">>
NewSymbol == <<"n", "e", "w", ":", ":", "s", "y", "m", "b", "o", "l">>
Crate1 == <<"c", "r", "a", "t", "e", "1">>
Crate2 == <<"c", "r", "a", "t", "e", "2">>

\* The sizes a name can have in a report.
ReportSymbolSizes ==
    [n \in {FooBar, BazQux, RemovedSymbol, NewSymbol} |->
        IF n = FooBar THEN {100, 150}
        ELSE IF n = BazQux THEN {200}
        ELSE IF n = RemovedSymbol THEN {50} ELSE {75}]

ReportCrateSizes ==
    [n \in {Crate1, Crate2} |-> IF n = Crate1 THEN {300, 350} ELSE {250, 275}]

\* The maps from some of the names to one of their sizes.
SizeMaps(sizes) ==
    UNION {[names -> UNION {sizes[n] : n \in names}] : names \in SUBSET DOMAIN sizes}

SizeMapsOf(sizes) == {m \in SizeMaps(sizes) : \A n \in DOMAIN m : m[n] \in sizes[n]}

Reports ==
    {[metrics |-> [file_size |-> 8 + Cardinality(DOMAIN symbols), text_size |-> 4],
      all_crates |-> crates, all_symbols |-> symbols] :
        symbols \in SizeMapsOf(ReportSymbolSizes),
        crates \in {m \in SizeMapsOf(ReportCrateSizes) : Crate2 \in DOMAIN m}}

MaxGiven == 2

\* Report::comparison: the size changes of the two reports, and the two
\* lists of changes it is given, copied field by field in the order given.
report_comparison(base, cur, crate_changes, symbol_changes) ==
    [size_changes |->
        [file_size_diff |-> as_signed(cur.metrics.file_size) - as_signed(base.metrics.file_size),
         text_size_diff |-> as_signed(cur.metrics.text_size) - as_signed(base.metrics.text_size)],
     crate_changes |-> [k \in 1..Len(crate_changes) |->
                           [name |-> crate_changes[k].name,
                            size_before |-> crate_changes[k].size_before,
                            size_after |-> crate_changes[k].size_after]],
     symbol_changes |-> [k \in 1..Len(symbol_changes) |->
                            [name |-> symbol_changes[k].name,
                             demangled |-> symbol_changes[k].demangled,
                             size_before |-> symbol_changes[k].size_before,
                             size_after |-> symbol_changes[k].size_after]]]

\* The reports without symbols.
CrateReports == {r \in Reports : DOMAIN r.all_symbols = {}}

\* Lists of unit changes and of symbol changes a caller passes.
distinct_names(changes) ==
    \A i, j \in 1..Len(changes) : changes[i].name = changes[j].name => i = j

GivenCrateChanges ==
    {v \in SeqsUpTo({[name |-> Crate1, size_before |-> b, size_after |-> Some(350)] :
                        b \in {NoSize, Some(300)}}
                    \cup {[name |-> Crate2, size_before |-> Some(250), size_after |-> a] :
                             a \in {NoSize, Some(275)}},
                    MaxGiven) : distinct_names(v)}

GivenSymbolChanges ==
    {v \in SeqsUpTo({[name |-> FooBar, demangled |-> FooBar,
                      size_before |-> Some(100), size_after |-> Some(150)],
                     [name |-> BazQux, demangled |-> BazQux,
                      size_before |-> NoSize, size_after |-> Some(200)]},
                    MaxGiven) : distinct_names(v)}

exceptReport == <<firstVars, compareVars, changeVars, pdbVars, heuristicVars,
      hashVars, derivedVars>>

FromReports ==
    /\ comparison_data = NotCalled
    /\ \E base \in Reports, cur \in Reports :
        /\ baseline' = base
        /\ current' = cur
        /\ comparison_data' = from_reports(base, cur)
    /\ UNCHANGED exceptReport

\* One call of Report::comparison.
ReportComparison ==
    /\ comparison_data = NotCalled
    /\ \E base \in CrateReports, cur \in CrateReports,
          crate_changes \in GivenCrateChanges, symbol_changes \in GivenSymbolChanges :
        /\ baseline' = base
        /\ current' = cur
        /\ comparison_data' = report_comparison(base, cur, crate_changes, symbol_changes)
    /\ UNCHANGED exceptReport

----------------------------------------------------------------------------
(* Symbols from a debug database: object.rs collect_pdb_data.              *)
(* The database is modelled by what the pdb crate reads from it: whether   *)
(* it opens, its public symbols that are code or functions, and its        *)
(* procedure records, each with the virtual address the address map        *)
(* gives it, if any.                                                       *)

MaxOffset == 3
MaxProcs == 1

\* cmp_offsets: by section, then by offset.
cmp_offsets(a, b) ==
    IF a.section < b.section THEN "Less"
    ELSE IF a.section > b.section THEN "Greater"
    ELSE IF a.offset < b.offset THEN "Less"
    ELSE IF a.offset > b.offset THEN "Greater"
    ELSE "Equal"

\* public_symbols.sort_unstable_by(cmp_offsets), for public symbols at
\* different places.
sort_unstable_by_offsets(public_symbols) ==
    LET rank(i) == Cardinality({j \in 1..Len(public_symbols) :
                        cmp_offsets(public_symbols[j].offset,
                                    public_symbols[i].offset) = "Less"}) + 1
    IN  [p \in 1..Len(public_symbols) |->
            public_symbols[CHOOSE i \in 1..Len(public_symbols) : rank(i) = p]]

\* proc.offset + proc.len
offset_plus(offset, len) == [section |-> offset.section, offset |-> offset.offset + len]

\* The closure of the binary search: how a public symbol compares with the
\* procedure.
probe_cmp(probe, proc) ==
    IF cmp_offsets(probe.offset, proc.offset) = "Less" THEN "Less"
    ELSE IF cmp_offsets(probe.offset, offset_plus(proc.offset, proc.len)) = "Greater"
    THEN "Greater"
    ELSE "Equal"

\* binary_search_by(..).ok().map(|x| &public_symbols[x]): the results the
\* search can have; with several matches it returns any one of them.
mangled_symbols(public_symbols, proc) ==
    LET matches == {x \in 1..Len(public_symbols) :
                       probe_cmp(public_symbols[x], proc) = "Equal"}
    IN  IF matches = {} THEN {None} ELSE {Some(public_symbols[x]) : x \in matches}

\* SymbolName::demangle of a name that is not a Rust mangled name.
demangle(mangled_name) ==
    [complete |-> mangled_name, trimmed |-> mangled_name, kind |-> "Unknown",
     crate_name |-> None]

\* The closure of the final filter_map for one entry of out_symbols.
pdb_symbol(out_symbol) ==
    IF ~out_symbol.address.some THEN None
    ELSE Some([name |-> IF out_symbol.mangled_symbol.some
                        THEN demangle(out_symbol.mangled_symbol.value.name)
                        ELSE [complete |-> out_symbol.unmangled_name,
                              trimmed |-> out_symbol.unmangled_name,
                              kind |-> "Legacy", crate_name |-> None],
               address |-> out_symbol.address.value,
               size |-> out_symbol.size])

\* collect_pdb_data, found[i] being the result of the search for procs[i].
collect_pdb_data(database, found) ==
    IF ~database.opened THEN Err("OpenFailed")
    ELSE Ok([symbols |->
                filter_map([i \in 1..Len(database.procs) |->
                    pdb_symbol([address |-> database.procs[i].rva,
                                size |-> database.procs[i].len,
                                unmangled_name |-> database.procs[i].name,
                                mangled_symbol |-> found[i]])]),
             text_size |-> database.text_size])

\* Public symbols at the offsets 0..MaxOffset of section 1 and at the
\* start of section 2, named after their place.
DigitChars == <<"0", "1", "2", "3", "4", "5", "6", "7", "8", "9">>

PublicSymbol(section, offset) ==
    [offset |-> [section |-> section, offset |-> offset],
     name |-> <<"?", "p", DigitChars[section + 1], DigitChars[offset + 1]>>]

PublicSymbolSets ==
    SUBSET ({PublicSymbol(1, o) : o \in 0..MaxOffset} \cup {PublicSymbol(2, 0)})

NoRva == [some |-> FALSE, value |-> 0]

\* Procedures of section 1, of length 0 to 2, with or without an address.
Procedures ==
    UNION {{[offset |-> [section |-> 1, offset |-> o], len |-> l, name |-> AF, rva |-> r] :
                r \in {NoRva, Some(16 + o)}} :
            o \in 0..(MaxOffset - 1), l \in 0..2}

Databases ==
    {[opened |-> FALSE, public_symbols |-> {}, procs |-> <<>>, text_size |-> 4]}
    \cup [opened : {TRUE}, public_symbols : PublicSymbolSets,
          procs : SeqsUpTo(Procedures, MaxProcs), text_size : {4}]

exceptPdb == <<firstVars, reportingVars, heuristicVars,
      hashVars, derivedVars>>

CollectPdbData ==
    /\ pdb = NotCalled
    /\ \E database \in Databases :
        LET public_symbols ==
                sort_unstable_by_offsets(iteration_order(database.public_symbols))
        IN  /\ pdb' = database
            /\ \E found \in [1..Len(database.procs) ->
                                {None} \cup {Some(x) : x \in database.public_symbols}] :
                  /\ \A i \in 1..Len(database.procs) :
                        found[i] \in mangled_symbols(public_symbols, database.procs[i])
                  /\ pdb_symbols' = collect_pdb_data(database, found)
    /\ UNCHANGED exceptPdb

----------------------------------------------------------------------------
(* Calls of extract_crate_from_function on the names of IR functions.      *)

MaxNameTokens == 3

CoreCrate == <<"c", "o", "r", "e">>

\* What the names are made of: a lower-case, an upper-case letter, a digit,
\* an underscore, the marks of generics, the separators and a unit of the
\* standard library.
NameTokens ==
    {<<"a">>, <<"V">>, <<"1">>, <<"_">>, <<"<">>, <<">">>, PathSep, AsSep, CoreCrate}

RECURSIVE FunctionNames(_)
FunctionNames(n) ==
    IF n = 0 THEN {<<>>}
    ELSE LET prev == FunctionNames(n - 1)
         IN  prev \cup {s \o t : s \in prev, t \in NameTokens}

exceptHeuristic == <<firstVars, reportingVars, pdbVars,
      hashVars, derivedVars>>

ExtractCrateFromFunction ==
    /\ heuristic_crate = NotCalled
    /\ \E func_name \in FunctionNames(MaxNameTokens) :
        /\ llvm_function' = [status |-> "Called", name |-> func_name]
        /\ heuristic_crate' = [status |-> "Returned",
                               name |-> extract_crate_from_function(func_name)]
    /\ UNCHANGED exceptHeuristic

----------------------------------------------------------------------------
(* Hash removal: types.rs DemangledSymbol::strip_hash, and the removal the *)
(* IR analyzer does in parse_function_name. A name is the sequence of its  *)
(* bytes; the two bytes of a two-byte character are written c3 and a9.     *)

HashMarker == <<":", ":", "h">>

\* str::rfind of a pattern: the index of its last occurrence, 0 if none.
rfind_str(s, pat) ==
    LET at == {i \in 1..(Len(s) - Len(pat) + 1) : SubSeq(s, i, i + Len(pat) - 1) = pat}
    IN  IF at = {} THEN 0 ELSE CHOOSE i \in at : \A j \in at : j <= i

\* is_lower_hex_char with the test of the case left out.
is_lower_hex_char_any_case(c) ==
    c \in HexDigits \cup {"A", "B", "C", "D", "E", "F"}

\* c.is_ascii_hexdigit() && c.is_ascii_lowercase() || c.is_ascii_digit()
is_lower_hex_char(c) ==
    (c \in HexDigits \cup {"A", "B", "C", "D", "E", "F"} /\ c \in LowerLetters)
    \/ c \in Digits

hash_suffix_matches(suffix) ==
    /\ Len(suffix) = HashLen
    /\ \A i \in 1..Len(suffix) : is_lower_hex_char(suffix[i])

strip_hash(s) ==
    LET hash_pos == rfind_str(s, HashMarker)
    IN  IF hash_pos # 0 /\ hash_suffix_matches(SubSeq(s, hash_pos + 3, Len(s)))
        THEN SubSeq(s, 1, hash_pos - 1)
        ELSE s

\* parse_function_name from the trimmed name on: has_hash, then truncate.
truncate_hash(name) ==
    IF has_hash(name) THEN SubSeq(name, 1, Len(name) - HashSuffixLen) ELSE name

\* n times the byte c.
RECURSIVE repeat(_, _)
repeat(c, n) == IF n = 0 THEN <<>> ELSE <<c>> \o repeat(c, n - 1)

\* What can follow the marker: 15, 16 or 17 times a digit, a lower-case or
\* upper-case hex digit, a letter that is no hex digit or a byte of a
\* two-byte character; 16 different hex digits; 15 hex digits and one byte
\* of another kind at either end.
HashSuffixes ==
    {repeat(c, n) : c \in {"1", "a", "F", "g", "a9"},
                    n \in (HashLen - 1)..(HashLen + 1)}
    \cup {SubSeq(HashedF, 5, Len(HashedF))}
    \cup {repeat("e", HashLen - 1) \o <<c>> : c \in {"F", "g", ":", "a9"}}
    \cup {<<c>> \o repeat("2", HashLen - 1) : c \in {"F", "g", "h", "a9"}}
    \cup {<<>>}

HashMarkers ==
    {HashMarker, <<":", ":", "g">>, <<":", "h">>, <<":", ":", "H">>, <<"h">>, <<>>}

HashPrefixes ==
    {<<>>, <<"f">>, <<"f", ":", ":", "h", "1">>, <<"c3", "a9">>, <<":">>}

HashedNames == {p \o m \o x : p \in HashPrefixes, m \in HashMarkers, x \in HashSuffixes}

exceptHash == <<firstVars, reportingVars, pdbVars, heuristicVars, derivedVars>>

StripHash ==
    /\ without_hash = NotCalled
    /\ \E s \in HashedNames :
        /\ demangled_symbol' = [status |-> "Called", name |-> s]
        /\ without_hash' = [status |-> "Returned",
                            strip_hash |-> strip_hash(s),
                            ir_name |-> truncate_hash(s)]
    /\ UNCHANGED exceptHash

----------------------------------------------------------------------------
(* Summaries: analysis_ext.rs top_symbols and total_size_change.           *)

MaxTop == 3

\* AnalysisResult::top_symbols: the trimmed name and the size of each entry
\* of the field symbols, sorted by Reverse(size) with a stable sort, and the
\* first n of them.
top_symbols(self, n) ==
    LET symbol_list == [i \in 1..Len(self.symbols) |->
                           [name |-> self.symbols[i].name.trimmed,
                            size |-> self.symbols[i].size]]
        sorted == sort_by_key(symbol_list,
                              [i \in 1..Len(symbol_list) |-> -symbol_list[i].size])
    IN  SubSeq(sorted, 1, IF n < Len(sorted) THEN n ELSE Len(sorted))

\* What a call of top_symbols leaves alone.
exceptTop ==
    <<firstVars, reportingVars, pdbVars, heuristicVars, hashVars,
      ret_again, size_change_total>>

\* top_symbols(n) on a result analyze_binary returned.
TopSymbols ==
    /\ top_listing = NotCalled
    /\ \E side \in {"ir_off", "ir_on"}, n \in 0..MaxTop :
        /\ result[side] # NotCalled
        /\ result[side].status = "Ok"
        /\ top_listing' = [status |-> "Returned", of |-> side, n |-> n,
                           entries |-> top_symbols(result[side], n)]
    /\ UNCHANGED exceptTop

\* a + b on signed integers: the sum when it fits; when it does not, a panic
\* in a build with overflow checks and the wrapped sum in one without them.
signed_add(a, b) ==
    IF a + b >= -SignedRange /\ a + b < SignedRange
    THEN {[status |-> "Returned", value |-> a + b]}
    ELSE {[status |-> "Panicked"],
          [status |-> "Returned",
           value |-> ((a + b + SignedRange) % UnsignedRange) - SignedRange]}

\* The sum of the differences that are present, from change i on.
RECURSIVE sum_absolute_changes(_, _, _)
sum_absolute_changes(changes, i, acc) ==
    IF i > Len(changes) THEN {[status |-> "Returned", value |-> acc]}
    ELSE UNION {IF o.status = "Panicked" THEN {o}
                ELSE IF ~o.value.some THEN sum_absolute_changes(changes, i + 1, acc)
                ELSE UNION {IF t.status = "Panicked" THEN {t}
                            ELSE sum_absolute_changes(changes, i + 1, t.value) :
                            t \in signed_add(acc, o.value.value)} :
                o \in absolute_change(changes[i])}

\* AnalysisComparison::total_size_change:
\* crate_changes.iter().filter_map(|c| c.absolute_change()).sum()
total_size_change(self) == sum_absolute_changes(self.crate_changes, 1, 0)

\* What a call of total_size_change leaves alone.
exceptTotal ==
    <<firstVars, reportingVars, pdbVars, heuristicVars, hashVars,
      ret_again, top_listing>>

\* total_size_change() on a comparison compare returned.
TotalSizeChange ==
    /\ comparison # NotCalled
    /\ comparison.status = "Ok"
    /\ size_change_total = NotCalled
    /\ \E o \in total_size_change(comparison) : size_change_total' = o
    /\ UNCHANGED exceptTotal

----------------------------------------------------------------------------
(* Specifications, one per component.                                      *)

CompareIdle == before = NotCalled /\ after = NotCalled /\ comparison = NotCalled
ChangeIdle == change = NotCalled /\ deltas = NotCalled
ReportIdle ==
    baseline = NotCalled /\ current = NotCalled /\ comparison_data = NotCalled
PdbIdle == pdb = NotCalled /\ pdb_symbols = NotCalled
HeuristicIdle == llvm_function = NotCalled /\ heuristic_crate = NotCalled
HashIdle == demangled_symbol = NotCalled /\ without_hash = NotCalled
DerivedIdle ==
    ret_again = NotCalled /\ top_listing = NotCalled /\ size_change_total = NotCalled

Init ==
    /\ ExtractIdle /\ ResolverIdle /\ IndexIdle /\ IrIdle /\ IrDirIdle /\ AnalyzeIdle
    /\ CompareIdle /\ ChangeIdle /\ ReportIdle /\ PdbIdle /\ HeuristicIdle
    /\ HashIdle /\ DerivedIdle

NextExtract == CollectSelfData

SpecExtract == Init /\ [][NextExtract]_vars

NextResolve == FromSym

SpecResolve == Init /\ [][NextResolve]_vars

NextResolveAgain == FromSym \/ FromSymAgain

SpecResolveAgain == Init /\ [][NextResolveAgain]_vars

NextParseSym == ParseSym

SpecParseSym == Init /\ [][NextParseSym]_vars

NextIndex == CollectDepsSymbols

SpecIndex == Init /\ [][NextIndex]_vars

NextIr == AnalyzeLlvmIrData

SpecIr == Init /\ [][NextIr]_vars

NextIrDir == StartAnalysis \/ WorkerFinishes \/ MergeResults

SpecIrDir == Init /\ [][NextIrDir]_vars

NextAnalyze == AnalyzeBinary \/ AnalyzeBinaryAgain

SpecAnalyze == Init /\ [][NextAnalyze]_vars

NextCompare == Compare

SpecCompare == Init /\ [][NextCompare]_vars

NextChange == ChangeDeltas

SpecChange == Init /\ [][NextChange]_vars

NextReport == FromReports

SpecReport == Init /\ [][NextReport]_vars

NextPdb == CollectPdbData

SpecPdb == Init /\ [][NextPdb]_vars

NextHeuristic == ExtractCrateFromFunction

SpecHeuristic == Init /\ [][NextHeuristic]_vars

NextHash == StripHash

SpecHash == Init /\ [][NextHash]_vars

NextReportData == FromReports \/ ReportComparison

SpecReportData == Init /\ [][NextReportData]_vars

NextTop == AnalyzeBinary \/ TopSymbols

SpecTop == Init /\ [][NextTop]_vars

NextTotal == Compare \/ TotalSizeChange

SpecTotal == Init /\ [][NextTotal]_vars

----------------------------------------------------------------------------
(* Properties.                                                             *)

\* C1: when collect_self_data returns Ok for a parser output with N records
\* on K distinct addresses, it returns exactly K symbols, in strictly
\* increasing address order (so no two share an address), and the symbol
\* kept for an address is the first record with that address in the
\* parser's output order.
C1_DedupBound ==
    d.status = "Ok" =>
        LET inp == parsed.parser.symbols
            out == d.symbols
            FirstAt(a) == CHOOSE j \in 1..Len(inp) :
                            /\ inp[j].address = a
                            /\ \A k \in 1..(j - 1) : inp[k].address # a
        IN  /\ Len(out) = Cardinality({inp[i].address : i \in 1..Len(inp)})
            /\ \A i \in 1..(Len(out) - 1) : out[i].address < out[i + 1].address
            /\ \A i \in 1..Len(out) : out[i] = inp[FirstAt(out[i].address)]

\* N = 3 records on K = 2 addresses, out of address order, the two records
\* of the shared address differing: 2 symbols are returned.
C1_Witness ==
    /\ d.status = "Ok"
    /\ Len(parsed.parser.symbols) = 3
    /\ Len(d.symbols) = 2
    /\ parsed.parser.symbols[1].address > parsed.parser.symbols[2].address
    /\ parsed.parser.symbols[1].address = parsed.parser.symbols[3].address
    /\ parsed.parser.symbols[1] # parsed.parser.symbols[3]

\* C2: from_sym returns a (unit, exact) pair for every symbol, index and
\* std/dep unit set; no input makes it panic.
C2_NeverPanics == ret.status # "Panicked"

C6_UnitsAtMostOnce ==
    map.status = "Ok" =>
        \A k \in DOMAIN map.map :
            \A i, j \in 1..Len(map.map[k]) :
                i # j => map.map[k][i] # map.map[k][j]

\* The definitions of a text that a `}` line closes: (i, j) with line i a
\* define line whose name parses, line j the first `}` after it, and no
\* define line between them.
ClosedDefinitions(lines) ==
    {p \in (1..Len(lines)) \X (1..Len(lines)) :
        /\ p[1] < p[2]
        /\ starts_with(lines[p[1]], DefineKw)
        /\ parse_function_name(lines[p[1]]).some
        /\ lines[p[2]] = CloseBrace
        /\ \A k \in (p[1] + 1)..(p[2] - 1) :
            ~starts_with(lines[k], DefineKw) /\ lines[k] # CloseBrace}

\* The lines of the body of a closed definition indented by exactly two spaces.
BodyLines(lines, p) ==
    Cardinality({k \in (p[1] + 1)..(p[2] - 1) :
        starts_with(lines[k], <<" ", " ">>) /\ ~starts_with(lines[k], <<" ", " ", " ">>)})

\* C7: analyze_llvm_ir_data returns one entry per name of a closed
\* definition; its copies is the number of closed definitions of that name
\* and its lines the sum of their body-line counts.
C7_EntryPerClosedDefinition ==
    instantiations.status = "Ok" =>
        LET closed == ClosedDefinitions(ir)
            NameOf(p) == parse_function_name(ir[p[1]]).value
            got == instantiations.functions
        IN  /\ DOMAIN got = {NameOf(p) : p \in closed}
            /\ \A n \in DOMAIN got :
                LET mine == {p \in closed : NameOf(p) = n}
                IN  /\ got[n].copies = Cardinality(mine)
                    /\ got[n].lines = SumFn([p \in mine |-> BodyLines(ir, p)])

\* C8: the map analyze_llvm_ir_from_target_dir returns is the sum, per
\* function, of the lines and copies of the files, each counted as often as
\* it is listed: the same for every order of ll_files and every order in
\* which the tasks finish.
C8_MergeOrderIndependent ==
    functions.status = "Ok" =>
        LET PerFile(path) == analyze_llvm_ir_data(IrFiles[path].data)
            Times(path) == Cardinality({i \in 1..Len(ll_files) : ll_files[i] = path})
            listed == {ll_files[i] : i \in 1..Len(ll_files)}
            got == functions.functions
        IN  /\ DOMAIN got = UNION {DOMAIN PerFile(path) : path \in listed}
            /\ \A n \in DOMAIN got :
                LET with == {path \in listed : n \in DOMAIN PerFile(path)}
                IN  /\ got[n].lines =
                        SumFn([path \in with |-> Times(path) * PerFile(path)[n].lines])
                    /\ got[n].copies =
                        SumFn([path \in with |-> Times(path) * PerFile(path)[n].copies])

\* Three files listed in an order other than that of their names; f is
\* defined in two of them and g in two of them.
C8_Witness ==
    /\ functions.status = "Ok"
    /\ ll_files = <<"c.ll", "a.ll", "b.ll">>
    /\ functions.functions[<<"f">>].copies = 2
    /\ functions.functions[<<"f">>].lines = 3
    /\ functions.functions[<<"g">>].copies = 2
    /\ functions.functions[<<"g">>].lines = 1

\* C9: when reading one of the listed files fails, the call returns
\* Err(OpenFailed) for a file that cannot be read, never a map.
C9_ReadFailurePropagates ==
    (/\ functions.status \notin {"NotCalled", "Running"}
     /\ \E i \in 1..Len(ll_files) : ~IrFiles[ll_files[i]].readable) =>
        /\ functions.status = "Err"
        /\ functions.error = "OpenFailed"
        /\ functions.path \in {ll_files[i] : i \in 1..Len(ll_files)}
        /\ ~IrFiles[functions.path].readable

\* The failing file is listed between two files that were parsed.
C9_Witness ==
    /\ functions.status = "Err"
    /\ Len(ll_files) = 3
    /\ results[1].status = "Ok" /\ DOMAIN results[1].functions # {}
    /\ results[2].status = "Err"
    /\ results[3].status = "Ok" /\ DOMAIN results[3].functions # {}

\* The attribution kept for the i-th enriched symbol: every field of the
\* symbol but the raw symbol itself.
Attribution(es, i) == [f \in DOMAIN es[i] \ {"data"} |-> es[i][f]]

\* The snapshot r keeps apart any two symbols the resolver attributed with
\* different exact flags.
ExactDistinguishable(r) ==
    r.status = "Ok" =>
        LET es == r.enriched_symbols.value
            Exact(i) == from_sym(context, std_handling_of(config.split_std),
                                 es[i].data.name).exact
        IN  \A i, j \in 1..Len(es) :
                Exact(i) # Exact(j) => Attribution(es, i) # Attribution(es, j)

\* C4: in the snapshot analyze_binary returns, the exact flag the resolver
\* returned for a symbol is kept with the attributed unit, so that an
\* attribution with exact = FALSE can be told from one with exact = TRUE.
C4_ExactFlagRetained ==
    ExactDistinguishable(result.ir_off) /\ ExactDistinguishable(result.ir_on)

\* The file name of an IR file that is not that of a build script.
IsIrFileName(name) ==
    /\ Len(name) > 3
    /\ SubSeq(name, Len(name) - 2, Len(name)) = <<".", "l", "l">>
    /\ ~starts_with(name, BuildScriptUnderscore)
    /\ ~starts_with(name, BuildScriptDash)

\* The IR files of the file system in root or in a directory below it.
IrFilesUnder(fs, root) ==
    UNION {{join(dir, fs[dir].entries[i].name) :
                i \in {k \in 1..Len(fs[dir].entries) :
                         /\ ~fs[dir].entries[k].is_dir
                         /\ IsIrFileName(fs[dir].entries[k].name)}} :
            dir \in {x \in DOMAIN fs : starts_with(x, root)}}

\* Both runs of analyze_binary are done, the one without IR analysis
\* returned Ok, and there is no IR file under the build directory.
NoIrFilesCase ==
    /\ result.ir_on # NotCalled
    /\ result.ir_off # NotCalled
    /\ result.ir_off.status = "Ok"
    /\ IrFilesUnder(target_dir, join(target_dir_of(config),
                                     build_dir_of(config.build_type))) = {}

\* C10: when IR analysis is requested and there is no IR file under the
\* search root, analyze_llvm_ir_from_target_dir returns an error, and
\* analyze_binary still returns Ok, with llvm_ir_data absent and file_size,
\* text_size and symbols as in the same run without IR analysis.
C10_NoIrFilesDegradesGracefully ==
    NoIrFilesCase =>
        /\ analyze_llvm_ir_from_target_dir(target_dir, target_dir_of(config),
                                           config.build_type).status = "Err"
        /\ result.ir_on.status = "Ok"
        /\ result.ir_on.llvm_ir_data = None
        /\ result.ir_on.file_size = result.ir_off.file_size
        /\ result.ir_on.text_size = result.ir_off.text_size
        /\ result.ir_on.symbols = result.ir_off.symbols

\* A binary of two symbols analysed with and without IR analysis in a debug
\* build that holds only a source file and the IR of a build script.
C10_Witness ==
    /\ NoIrFilesCase
    /\ target_dir = FsNoIr
    /\ ~config.target_dir.some
    /\ Len(result.ir_on.enriched_symbols.value) = 2

\* C11: every record of the map analyze_llvm_ir_data returns has the name
\* it is keyed under in its name field, so that all_llvm_functions, which
\* aggregates the records of a crate by their name field, yields one
\* aggregate per function.
C11_NameFieldIsKey ==
    instantiations.status = "Ok" =>
        LET got == instantiations.functions
            aggregates == all_llvm_functions(<<[name |-> UnitA, llvm_functions |-> got]>>)
        IN  /\ \A n \in DOMAIN got : got[n].name = n
            /\ DOMAIN aggregates = DOMAIN got

\* The symbols a snapshot carries, wherever it keeps them, each with its
\* trimmed name, the unit it is attributed to and its size.
snapshot_entries(snapshot) ==
    compared_crates(snapshot, snapshot.enriched_symbols.some)

snapshot_names(snapshot) ==
    compared_symbols(snapshot, snapshot.enriched_symbols.some)

\* The sum of the sizes of the symbols of a snapshot that have a trimmed name.
size_of_name(snapshot, demangled) ==
    LET datas == snapshot_names(snapshot)
    IN  SumFn([i \in {j \in 1..Len(datas) : datas[j].name.trimmed = demangled} |->
                  datas[i].size])

has_name(snapshot, demangled) ==
    \E i \in 1..Len(snapshot_names(snapshot)) :
        snapshot_names(snapshot)[i].name.trimmed = demangled

\* C12: compare emits exactly one SymbolChange per trimmed name present in
\* either snapshot; size_before (size_after) is the sum of the sizes of the
\* before (after) symbols of that name, and is absent exactly when that side
\* has no symbol of that name, so that a symbol of size 0 gives Some(0).
C12_OneSymbolChangePerName ==
    comparison # NotCalled =>
        LET changes == comparison.symbol_changes
            names == {n \in {AF, AG, BG} : has_name(before, n) \/ has_name(after, n)}
        IN  /\ comparison.status = "Ok"
            /\ {changes[k].demangled : k \in 1..Len(changes)} = names
            /\ \A k, l \in 1..Len(changes) :
                  changes[k].demangled = changes[l].demangled => k = l
            /\ \A k \in 1..Len(changes) :
                  /\ changes[k].size_before.some = has_name(before, changes[k].demangled)
                  /\ changes[k].size_after.some = has_name(after, changes[k].demangled)
                  /\ changes[k].size_before.some =>
                        changes[k].size_before.value =
                            size_of_name(before, changes[k].demangled)
                  /\ changes[k].size_after.some =>
                        changes[k].size_after.value =
                            size_of_name(after, changes[k].demangled)

\* The sum of the sizes of the symbols of a snapshot attributed to a unit.
size_of_crate(snapshot, c) ==
    LET sized == snapshot_entries(snapshot)
    IN  SumFn([i \in {j \in 1..Len(sized) : sized[j].crate_name = c} |-> sized[i].size])

has_crate(snapshot, c) ==
    \E i \in 1..Len(snapshot_entries(snapshot)) :
        snapshot_entries(snapshot)[i].crate_name = c

\* The sum of the sizes that are present in a sequence of optional sizes.
present_total(sizes) ==
    SumFn([k \in {j \in 1..Len(sizes) : sizes[j].some} |-> sizes[k].value])

sizes_before(changes) == [k \in 1..Len(changes) |-> changes[k].size_before]

sizes_after(changes) == [k \in 1..Len(changes) |-> changes[k].size_after]

\* C13: compare emits exactly one unit change per unit to which a symbol of
\* either snapshot is attributed; size_before (size_after) is the sum of the
\* sizes of the before (after) symbols attributed to the unit and is absent
\* exactly when that side attributes none to it; the present sizes of the
\* unit changes add up to those of the symbol changes, on each side.
C13_OneCrateChangePerCrate ==
    comparison # NotCalled =>
        LET changes == comparison.crate_changes
            units == {c \in {UnitA, UnitB} : has_crate(before, c) \/ has_crate(after, c)}
        IN  /\ comparison.status = "Ok"
            /\ {changes[k].name : k \in 1..Len(changes)} = units
            /\ \A k, l \in 1..Len(changes) : changes[k].name = changes[l].name => k = l
            /\ \A k \in 1..Len(changes) :
                  /\ changes[k].size_before.some = has_crate(before, changes[k].name)
                  /\ changes[k].size_after.some = has_crate(after, changes[k].name)
                  /\ changes[k].size_before.some =>
                        changes[k].size_before.value = size_of_crate(before, changes[k].name)
                  /\ changes[k].size_after.some =>
                        changes[k].size_after.value = size_of_crate(after, changes[k].name)
            /\ present_total(sizes_before(changes)) =
                  present_total(sizes_before(comparison.symbol_changes))
            /\ present_total(sizes_after(changes)) =
                  present_total(sizes_after(comparison.symbol_changes))

\* C14: compare(S, S) never fails; every symbol change and every unit change
\* it returns has both sizes present and equal, and the file and text sizes
\* before and after are equal.
C14_SelfComparisonHasNoDifference ==
    (comparison # NotCalled /\ before = after) =>
        /\ comparison.status = "Ok"
        /\ \A k \in 1..Len(comparison.symbol_changes) :
              /\ comparison.symbol_changes[k].size_before.some
              /\ comparison.symbol_changes[k].size_after.some
              /\ comparison.symbol_changes[k].size_before.value =
                    comparison.symbol_changes[k].size_after.value
        /\ \A k \in 1..Len(comparison.crate_changes) :
              /\ comparison.crate_changes[k].size_before.some
              /\ comparison.crate_changes[k].size_after.some
              /\ comparison.crate_changes[k].size_before.value =
                    comparison.crate_changes[k].size_after.value
        /\ comparison.file_size_diff.file_size_before =
              comparison.file_size_diff.file_size_after
        /\ comparison.file_size_diff.text_size_before =
              comparison.file_size_diff.text_size_after

\* A snapshot of two symbols of two units, enriched, compared with itself.
C14_Witness ==
    /\ comparison # NotCalled
    /\ before = after
    /\ before.enriched_symbols.some
    /\ Len(comparison.symbol_changes) = 2
    /\ Len(comparison.crate_changes) = 2
    /\ \E k \in 1..2 : comparison.symbol_changes[k].size_before = Some(1)

\* C15: percent_change is present exactly when both sizes are present and
\* size_before > 0; absolute_change is present exactly when both sizes are
\* present, and is then the mathematical difference size_after - size_before
\* for all unsigned sizes of the full width, without wrap-around or overflow.
C15_DeltasPresentAndExact ==
    deltas # NotCalled =>
        LET both == change.size_before.some /\ change.size_after.some
        IN  /\ deltas.percent.some = (both /\ change.size_before.value > 0)
            /\ deltas.absolute.status = "Returned"
            /\ deltas.absolute.value.some = both
            /\ both => deltas.absolute.value.value =
                          change.size_after.value - change.size_before.value

\* C16: from_reports yields exactly one symbol change for each name whose
\* size differs between baseline and current or that only one of them has,
\* with the sizes of the reports and no size on the side that lacks the
\* name, and none for a name of equal size on both sides; crate_changes has
\* exactly one entry per crate of either report, with the sizes recorded.
\* The reports of test_symbol_comparison give exactly 3 symbol changes.
C16_ReportChanges ==
    comparison_data # NotCalled =>
        LET symbol_changes == comparison_data.symbol_changes
            crate_changes == comparison_data.crate_changes
            base == baseline.all_symbols
            cur == current.all_symbols
            changed == {n \in DOMAIN base \cup DOMAIN cur :
                          get_size(base, n) # get_size(cur, n)}
        IN  /\ {symbol_changes[k].demangled : k \in 1..Len(symbol_changes)} = changed
            /\ Len(symbol_changes) = Cardinality(changed)
            /\ \A k \in 1..Len(symbol_changes) :
                  /\ symbol_changes[k].size_before =
                        get_size(base, symbol_changes[k].demangled)
                  /\ symbol_changes[k].size_after =
                        get_size(cur, symbol_changes[k].demangled)
            /\ {crate_changes[k].name : k \in 1..Len(crate_changes)} =
                  DOMAIN baseline.all_crates \cup DOMAIN current.all_crates
            /\ Len(crate_changes) =
                  Cardinality(DOMAIN baseline.all_crates \cup DOMAIN current.all_crates)
            /\ \A k \in 1..Len(crate_changes) :
                  /\ crate_changes[k].size_before =
                        get_size(baseline.all_crates, crate_changes[k].name)
                  /\ crate_changes[k].size_after =
                        get_size(current.all_crates, crate_changes[k].name)
            /\ (base = (FooBar :> 100 @@ BazQux :> 200 @@ RemovedSymbol :> 50)
                /\ cur = (FooBar :> 150 @@ BazQux :> 200 @@ NewSymbol :> 75))
               => Len(symbol_changes) = 3

\* The reports of test_symbol_comparison have been compared: three symbol
\* changes, the largest first, and the two crates.
C16_Witness ==
    /\ comparison_data # NotCalled
    /\ baseline.all_symbols = (FooBar :> 100 @@ BazQux :> 200 @@ RemovedSymbol :> 50)
    /\ current.all_symbols = (FooBar :> 150 @@ BazQux :> 200 @@ NewSymbol :> 75)
    /\ baseline.all_crates = (Crate1 :> 300 @@ Crate2 :> 250)
    /\ current.all_crates = (Crate1 :> 350 @@ Crate2 :> 275)
    /\ Len(comparison_data.symbol_changes) = 3
    /\ comparison_data.symbol_changes[1].demangled = NewSymbol
    /\ Len(comparison_data.crate_changes) = 2

\* The procedures of a database that have a virtual address, in order.
RECURSIVE with_address(_)
with_address(procs) ==
    IF procs = <<>> THEN <<>>
    ELSE (IF Head(procs).rva.some THEN <<Head(procs)>> ELSE <<>>)
         \o with_address(Tail(procs))

\* A public symbol lies in [proc.offset, proc.offset + proc.len).
in_half_open_range(public, proc) ==
    /\ public.offset.section = proc.offset.section
    /\ proc.offset.offset <= public.offset.offset
    /\ public.offset.offset < proc.offset.offset + proc.len

\* C17: a procedure gets the mangled name of a public symbol only if that
\* symbol lies in [proc.offset, proc.offset + proc.len), so never that of a
\* public symbol exactly at proc.offset + proc.len; a procedure with no
\* public symbol in that range gets its own name as complete and trimmed
\* name, the legacy scheme and no embedded unit; a procedure without a
\* virtual address is dropped.
C17_PublicNameWithinProcedure ==
    (pdb_symbols # NotCalled /\ pdb_symbols.status = "Ok") =>
        LET procs == with_address(pdb.procs)
            symbols == pdb_symbols.symbols
        IN  /\ Len(symbols) = Len(procs)
            /\ \A i \in 1..Len(symbols) :
                  /\ symbols[i].address = procs[i].rva.value
                  /\ \A public \in pdb.public_symbols :
                        symbols[i].name.complete = public.name =>
                            in_half_open_range(public, procs[i])
                  /\ (\A public \in pdb.public_symbols :
                          ~in_half_open_range(public, procs[i])) =>
                        symbols[i].name = [complete |-> procs[i].name,
                                           trimmed |-> procs[i].name,
                                           kind |-> "Legacy", crate_name |-> None]

\* The candidate unit of a name: the text before its first `::`, and when
\* that starts with `<`, its last word after the leading `<` and `&`; empty
\* when there is no `::` or no word.
first_path_segment(name) ==
    IF ~contains(name, PathSep) THEN <<>>
    ELSE LET segment == split(name, PathSep)[1]
             words == split_whitespace(strip_leading(strip_leading(segment, "<"), "&"))
         IN  IF ~starts_with(segment, <<"<">>) THEN segment
             ELSE IF words = <<>> THEN <<>>
             ELSE words[Len(words)]

\* C18: for a V0 symbol whose complete name is not in the index, the
\* resolver returns the embedded unit with exact = TRUE when there is one;
\* without one it returns the first path segment of the trimmed name with
\* exact = FALSE when that is a member of std_crates or dep_crates, and the
\* sentinel unknown unit in every other case. For a symbol of unknown scheme
\* not in the index it returns the sentinel unknown unit with exact = TRUE.
C18_VersionedAndUnknownScheme ==
    (ret.status # "NotCalled" /\ sym.complete \notin DOMAIN context.deps_symbols) =>
        /\ (sym.kind = "V0" /\ sym.crate_name.some) =>
              impl_ret = Returned(sym.crate_name.value, TRUE)
        /\ (sym.kind = "V0" /\ ~sym.crate_name.some) =>
              LET segment == first_path_segment(sym.trimmed)
              IN  IF segment \in context.std_crates \cup context.dep_crates
                  THEN impl_ret = Returned(segment, FALSE)
                  ELSE impl_ret = Returned(UNKNOWN, TRUE)
        /\ sym.kind = "Unknown" => impl_ret = Returned(UNKNOWN, TRUE)

\* C19: in merged mode from_sym returns std exactly when the unit resolved in
\* split mode is a member of std_crates, and otherwise the unit of split
\* mode; the exact flag is the same in both modes, and in merged mode no
\* returned unit other than std is a member of std_crates.
C19_MergedFoldsStdCrates ==
    (ret.status # "NotCalled" /\ impl_ret.status = "Returned") =>
        /\ std_handling = "Split" => ret = impl_ret
        /\ std_handling = "Merged" =>
              /\ ret.status = "Returned"
              /\ ret.name = (IF impl_ret.name \in context.std_crates
                             THEN STD ELSE impl_ret.name)
              /\ ret.exact = impl_ret.exact
              /\ ret.name \in context.std_crates => ret.name = STD

\* A symbol of a unit of std_crates resolved in merged mode by the parser,
\* not by the index.
C19_Witness ==
    /\ ret.status = "Returned"
    /\ std_handling = "Merged"
    /\ sym.complete \notin DOMAIN context.deps_symbols
    /\ impl_ret.name = UnitA
    /\ UnitA \in context.std_crates
    /\ ret.name = STD

\* A plausible identifier: not empty, not starting with a digit or with `<`,
\* only alphanumerics and underscores, and a lower-case first character.
plausible_identifier(part) ==
    /\ part # <<>>
    /\ ~is_numeric(part[1])
    /\ part[1] # "<"
    /\ \A i \in 1..Len(part) : is_alphanumeric(part[i]) \/ part[i] = "_"
    /\ part[1] \in LowerLetters

\* C20: extract_crate_from_function returns the first `::` segment of the
\* cleaned name when it is core, alloc, std, proc_macro or test; otherwise
\* that first segment only if it is a plausible identifier; otherwise the
\* first later segment that is one, and "unknown" if there is none.
C20_PlausibleIdentifierHeuristic ==
    heuristic_crate # NotCalled =>
        LET parts == split(cleaned_function_name(llvm_function.name), PathSep)
            plausible == {i \in 1..Len(parts) : plausible_identifier(parts[i])}
        IN  heuristic_crate.name =
                (IF vec_contains(StdCrateNames, parts[1]) THEN parts[1]
                 ELSE IF plausible # {}
                 THEN parts[CHOOSE i \in plausible : \A j \in plausible : i <= j]
                 ELSE UnknownCrate)

\* The name ends with `::h` and exactly 16 characters of 0-9 and a-f.
ends_with_hash(name) ==
    /\ Len(name) >= 19
    /\ SubSeq(name, Len(name) - 18, Len(name) - 16) = <<":", ":", "h">>
    /\ \A i \in (Len(name) - 15)..Len(name) :
          name[i] \in {"0", "1", "2", "3", "4", "5", "6", "7", "8", "9",
                       "a", "b", "c", "d", "e", "f"}

\* C21: strip_hash removes the trailing `::h` and 16 characters exactly when
\* the name ends with `::h` followed by exactly 16 characters of 0-9 and
\* a-f, and returns the name unchanged otherwise.
C21_StripHashExactly ==
    without_hash # NotCalled =>
        without_hash.strip_hash =
            (IF ends_with_hash(demangled_symbol.name)
             THEN SubSeq(demangled_symbol.name, 1, Len(demangled_symbol.name) - 19)
             ELSE demangled_symbol.name)

\* f::h0123456789abcdef has been stripped to f.
C21_Witness ==
    /\ without_hash # NotCalled
    /\ demangled_symbol.name = HashedF
    /\ without_hash.strip_hash = <<"f">>

\* C30: for every name the hash removal of the IR analyzer (has_hash, then
\* cutting the last 19 bytes) and strip_hash give the same result; the IR
\* analyzer never cuts a name shorter than 19 bytes, nor inside a multi-byte
\* character.
C30_HashRemovalsAgree ==
    without_hash # NotCalled =>
        LET name == demangled_symbol.name
        IN  /\ without_hash.ir_name = without_hash.strip_hash
            /\ without_hash.ir_name # name =>
                  /\ Len(name) >= 19
                  /\ without_hash.ir_name = SubSeq(name, 1, Len(name) - 19)
                  /\ name[Len(name) - 18] # "a9"

\* A name that starts with a two-byte character and ends with a hash: both
\* removals cut it right after the character.
C30_Witness ==
    /\ without_hash # NotCalled
    /\ demangled_symbol.name =
          <<"c3", "a9", ":", ":", "h", "1", "1", "1", "1", "1", "1", "1", "1",
            "1", "1", "1", "1", "1", "1", "1", "1">>
    /\ without_hash.ir_name = <<"c3", "a9">>
    /\ without_hash.strip_hash = <<"c3", "a9">>

candidates(name) ==
    LET parts == split(name, AsSep)
    IN  <<first_path_segment(parts[1]), first_path_segment(parts[2])>>

\* A legacy trait-implementation name with two candidates that are not
\* empty and disagree.
disagreeing_trait_impl(s) ==
    /\ s.kind = "Legacy"
    /\ contains(s.complete, AsSep)
    /\ candidates(s.complete)[1] # <<>>
    /\ candidates(s.complete)[2] # <<>>
    /\ candidates(s.complete)[1] # candidates(s.complete)[2]

C26_OnlyOwnBodyLines ==
    instantiations.status = "Ok" =>
        LET closed == ClosedDefinitions(ir)
            got == instantiations.functions
        IN  \A n \in DOMAIN got :
                LET mine == {p \in closed : parse_function_name(ir[p[1]]).value = n}
                IN  /\ got[n].lines <= SumFn([p \in mine |-> BodyLines(ir, p)])
                    /\ got[n].copies = Cardinality(mine)


\* C28: compare reports every symbol carried by a snapshot with a present
\* size on that snapshot's side, whether the snapshot is enriched or not: a
\* name carried by a before (after) symbol has a symbol change whose
\* size_before (size_after) is present and equal to the summed size.
C28_EverySnapshotSymbolReported ==
    (comparison # NotCalled /\ comparison.status = "Ok") =>
        \A n \in {AF, AG, BG} :
            /\ has_name(before, n) =>
                  \E k \in 1..Len(comparison.symbol_changes) :
                      /\ comparison.symbol_changes[k].demangled = n
                      /\ comparison.symbol_changes[k].size_before.some
                      /\ comparison.symbol_changes[k].size_before.value =
                            size_of_name(before, n)
            /\ has_name(after, n) =>
                  \E k \in 1..Len(comparison.symbol_changes) :
                      /\ comparison.symbol_changes[k].demangled = n
                      /\ comparison.symbol_changes[k].size_after.some
                      /\ comparison.symbol_changes[k].size_after.value =
                            size_of_name(after, n)


\* C23: on a result analyze_binary returned for a binary with K symbols,
\* top_symbols(n) returns min(n, K) entries in non-increasing size order,
\* each the trimmed name and the size of one of the binary's symbols, no
\* omitted symbol is larger than a returned one, and the field symbols of
\* the result still lists the K symbols.
C23_TopSymbolsOfAnalyzedBinary ==
    top_listing # NotCalled =>
        LET res == result[top_listing.of]
            mine == res.enriched_symbols.value
            K == Len(mine)
            got == top_listing.entries
            pairs == {[name |-> mine[i].data.name.trimmed, size |-> mine[i].data.size] :
                         i \in 1..K}
        IN  /\ Len(got) = (IF top_listing.n < K THEN top_listing.n ELSE K)
            /\ \A i, j \in 1..Len(got) : i < j => got[i].size >= got[j].size
            /\ \A i \in 1..Len(got) : got[i] \in pairs
            /\ Len(got) < K =>
                  \A i \in 1..Len(got) :
                      Cardinality({k \in 1..K : mine[k].data.size > got[i].size}) < i
            /\ Len(res.symbols) = K

\* C24: total_size_change() is the sum of the after-sizes of all unit
\* changes minus the sum of their before-sizes, a unit absent on one side
\* counting as 0 on that side.
C24_TotalOverAllCrates ==
    (size_change_total # NotCalled /\ size_change_total.status = "Returned") =>
        size_change_total.value =
            present_total(sizes_after(comparison.crate_changes))
            - present_total(sizes_before(comparison.crate_changes))


\* The magnitude of the size change of an entry, an added or removed entry
\* counting with its full size.
change_magnitude(c) ==
    abs((IF c.size_after.some THEN c.size_after.value ELSE 0)
        - (IF c.size_before.some THEN c.size_before.value ELSE 0))

non_increasing_magnitude(changes) ==
    \A i, j \in 1..Len(changes) :
        i < j => change_magnitude(changes[i]) >= change_magnitude(changes[j])

\* C25: the crate_changes and the symbol_changes of a ComparisonData are in
\* the order of non-increasing magnitude of the size change, an added or
\* removed entry counting with its full size.
C25_ChangesOrderedByMagnitude ==
    comparison_data # NotCalled =>
        /\ non_increasing_magnitude(comparison_data.crate_changes)
        /\ non_increasing_magnitude(comparison_data.symbol_changes)


\* C27: find_llvm_ir_files returns each IR file under the build directory at
\* most once, also a file in deps, examples or incremental, so the files the
\* analysis of a directory lists are distinct and its totals hold the lines
\* and the copies of each file once.
C27_EachIrFileOnce ==
    (/\ result.ir_on # NotCalled
     /\ result.ir_on.status = "Ok"
     /\ result.ir_on.llvm_ir_data.some) =>
        LET analysis == result.ir_on.llvm_ir_data.value
            files == analysis.analyzed_files
            distinct == {files[i] : i \in 1..Len(files)}
            inst(f) == analyze_llvm_ir_data(read_entry(target_dir, f).data)
        IN  /\ \A i, j \in 1..Len(files) : files[i] = files[j] => i = j
            /\ analysis.total_lines =
                  SumFn([f \in distinct |->
                            SumFn([n \in DOMAIN inst(f) |-> inst(f)[n].lines])])
            /\ analysis.total_copies =
                  SumFn([f \in distinct |->
                            SumFn([n \in DOMAIN inst(f) |-> inst(f)[n].copies])])

====
